---------------------------- MODULE Spec2Model ----------------------------
(***************************************************************************)
(* Research assistant: the citation extraction engine                      *)
(* (tools/citation_extractor.py) and the task dispatcher                   *)
(* (agents/researcher_agent.py).                                           *)
(*                                                                         *)
(* A Python str is a sequence of one-character strings.  Regular           *)
(* expressions are syntax trees interpreted by a backtracking matcher      *)
(* that enumerates the ways a pattern can match in the priority order of   *)
(* Python's re module (greedy before shorter, left alternative first), so  *)
(* that the first enumerated way is the match re reports.                  *)
(***************************************************************************)
EXTENDS Integers, Sequences, FiniteSets, TLC

(***************************************************************************)
(* Characters and str methods                                              *)
(***************************************************************************)
UpperSeq == <<"A", "B", "C", "D", "E", "F", "G", "H", "I", "J", "K", "L", "M",
              "N", "O", "P", "Q", "R", "S", "T", "U", "V", "W", "X", "Y", "Z">>

LowerSeq == <<"a", "b", "c", "d", "e", "f", "g", "h", "i", "j", "k", "l", "m",
              "n", "o", "p", "q", "r", "s", "t", "u", "v", "w", "x", "y", "z">>

Upper == {UpperSeq[k] : k \in DOMAIN UpperSeq}

Lower == {LowerSeq[k] : k \in DOMAIN LowerSeq}

Digit == {"0", "1", "2", "3", "4", "5", "6", "7", "8", "9"}

\* the whitespace of \s and of str.strip()
Space == {" ", "\t", "\n", "\r", "\f"}

\* str.lower() on one character
LowerChar(c) ==
    IF c \in Upper
    THEN LowerSeq[CHOOSE k \in DOMAIN UpperSeq : UpperSeq[k] = c]
    ELSE c

\* str.lower()
ToLower(s) == [k \in DOMAIN s |-> LowerChar(s[k])]

\* s[a:b] with 0-based, already clipped Python slice bounds a <= b
Slice(s, a, b) == SubSeq(s, a + 1, b)

\* str.strip(): drop leading and trailing whitespace
Strip(s) ==
    LET keep == {k \in DOMAIN s : s[k] \notin Space}
    IN  IF keep = {} THEN <<>>
        ELSE SubSeq(s, CHOOSE a \in keep : \A k \in keep : a <= k,
                       CHOOSE b \in keep : \A k \in keep : k <= b)

\* str.rstrip(chars)
RStrip(s, chars) ==
    LET keep == {k \in DOMAIN s : s[k] \notin chars}
    IN  IF keep = {} THEN <<>>
        ELSE SubSeq(s, 1, CHOOSE b \in keep : \A k \in keep : k <= b)

\* does sub occur in s at 1-based position p
OccursAt(sub, s, p) ==
    /\ p >= 1
    /\ p + Len(sub) - 1 <= Len(s)
    /\ \A k \in DOMAIN sub : s[p + k - 1] = sub[k]

\* sub in s
Contains(sub, s) == \E p \in 1..(Len(s) + 1) : OccursAt(sub, s, p)

\* s.find(sub, start): 0-based index of the first occurrence at or after the
\* 0-based index start, -1 when there is none
FindFrom(sub, s, start) ==
    LET hits == {p \in (start + 1)..(Len(s) + 1) : OccursAt(sub, s, p)}
    IN  IF hits = {} THEN -1
        ELSE (CHOOSE p \in hits : \A q \in hits : p <= q) - 1

Find(sub, s) == FindFrom(sub, s, 0)

(***************************************************************************)
(* Regular expressions (module re)                                         *)
(***************************************************************************)
Cls(set) == <<"cls", set>>

\* . under re.DOTALL
AnyChar == <<"any">>

\* . without re.DOTALL
Dot == <<"dot">>

Eos == <<"eos">>

Cat(rs) == <<"cat", rs>>

Alt(rs) == <<"alt", rs>>

Grp(k, r) == <<"grp", k, r>>

\* r{lo,hi}, greedy or lazy
RepN(lo, hi, greedy, r) == <<"rep", lo, TRUE, hi, greedy, r>>

\* r{lo,}: r*, r+ and their lazy forms
RepU(lo, greedy, r) == <<"rep", lo, FALSE, lo, greedy, r>>

\* str.upper() on one character
UpperChar(c) ==
    IF c \in Lower
    THEN UpperSeq[CHOOSE k \in DOMAIN LowerSeq : LowerSeq[k] = c]
    ELSE c

\* a run of literal characters
Lit(cs) == Cat([k \in DOMAIN cs |-> Cls({cs[k]})])

\* a run of literal characters under re.IGNORECASE
LitI(cs) == Cat([k \in DOMAIN cs |-> Cls({LowerChar(cs[k]), UpperChar(cs[k])})])

\* no group has taken part in the match
NoGroups == [k \in 1..3 |-> <<0, 0>>]

\* does the one-character pattern r accept character ch
Accepts(r, ch) ==
    CASE r[1] = "cls" -> ch \in r[2]
      [] r[1] = "any" -> TRUE
      [] r[1] = "dot" -> ch # "\n"
      [] OTHER -> FALSE

RECURSIVE Ways(_, _, _, _)
RECURSIVE WaysEach(_, _, _, _)
RECURSIVE WaysCat(_, _, _, _)
RECURSIVE WaysAlt(_, _, _, _, _)
RECURSIVE WaysRep(_, _, _, _, _)
RECURSIVE WaysRepEach(_, _, _, _, _)

\* The ways r matches s from position i (1-based index of the next character)
\* with groups g so far, in the matcher's priority order: each way is the
\* position after the match and the groups captured.
Ways(r, s, i, g) ==
    CASE r[1] = "cls" ->
            IF i <= Len(s) /\ s[i] \in r[2]
            THEN <<[e |-> i + 1, g |-> g]>> ELSE <<>>
      [] r[1] \in {"any", "dot"} ->
            IF i <= Len(s) /\ Accepts(r, s[i])
            THEN <<[e |-> i + 1, g |-> g]>> ELSE <<>>
      [] r[1] = "eos" ->
            IF i = Len(s) + 1 THEN <<[e |-> i, g |-> g]>> ELSE <<>>
      [] r[1] = "cat" -> WaysCat(r[2], 1, s, <<[e |-> i, g |-> g]>>)
      [] r[1] = "alt" -> WaysAlt(r[2], 1, s, i, g)
      [] r[1] = "grp" ->
            LET inner == Ways(r[3], s, i, g)
            IN  [k \in DOMAIN inner |->
                    [e |-> inner[k].e,
                     g |-> [inner[k].g EXCEPT ![r[2]] = <<i, inner[k].e>>]]]
      [] r[1] = "rep" -> WaysRep(r, s, i, g, 0)

\* r applied after each of the ways in fronts[k..], in order
WaysEach(r, s, fronts, k) ==
    IF k > Len(fronts) THEN <<>>
    ELSE Ways(r, s, fronts[k].e, fronts[k].g) \o WaysEach(r, s, fronts, k + 1)

\* rs[k..] applied in sequence after the ways in fronts
WaysCat(rs, k, s, fronts) ==
    IF k > Len(rs) \/ fronts = <<>> THEN fronts
    ELSE WaysCat(rs, k + 1, s, WaysEach(rs[k], s, fronts, 1))

\* the alternatives rs[k..], left one first
WaysAlt(rs, k, s, i, g) ==
    IF k > Len(rs) THEN <<>>
    ELSE Ways(rs[k], s, i, g) \o WaysAlt(rs, k + 1, s, i, g)

\* the ways of a repetition of a one-character pattern: it can take every
\* count from r[2] up to the length of the run of accepted characters at i
\* (at most r[4] when bounded), the longest first when greedy
WaysRun(r, s, i, g) ==
    LET stop == CHOOSE k \in i..(Len(s) + 1) :
                    /\ k = Len(s) + 1 \/ ~Accepts(r[6], s[k])
                    /\ \A j \in i..(k - 1) : Accepts(r[6], s[j])
        most == IF r[3] /\ r[4] < stop - i THEN r[4] ELSE stop - i
    IN  IF most < r[2] THEN <<>>
        ELSE [j \in 1..(most - r[2] + 1) |->
                [e |-> IF r[5] THEN i + most - (j - 1) ELSE i + r[2] + (j - 1),
                 g |-> g]]

\* a repetition that has made n iterations so far
WaysRep(r, s, i, g, n) ==
    IF r[6][1] \in {"cls", "any", "dot"} THEN WaysRun(r, s, i, g)
    ELSE LET more == IF r[3] /\ n >= r[4] THEN <<>>
                     ELSE WaysRepEach(r, s, Ways(r[6], s, i, g), n + 1, 1)
             stop == IF n >= r[2] THEN <<[e |-> i, g |-> g]>> ELSE <<>>
         IN  IF r[5] THEN more \o stop ELSE stop \o more

WaysRepEach(r, s, fronts, n, k) ==
    IF k > Len(fronts) THEN <<>>
    ELSE WaysRep(r, s, fronts[k].e, fronts[k].g, n)
            \o WaysRepEach(r, s, fronts, n, k + 1)

NoMatch == [start |-> 0, end |-> 0, g |-> NoGroups]

\* the scan of a compiled pattern over s from position pos: the leftmost
\* position at or after pos where the pattern matches, with the matcher's
\* first way there.  The match is s[start..end-1]; start = match.start() + 1
\* and end = match.end() + 1; start = 0 when there is no match.
Scan(r, s, pos) ==
    LET hits == {p \in pos..(Len(s) + 1) : Ways(r, s, p, NoGroups) # <<>>}
    IN  IF hits = {} THEN NoMatch
        ELSE LET p == CHOOSE x \in hits : \A y \in hits : x <= y
                 way == Ways(r, s, p, NoGroups)[1]
             IN  [start |-> p, end |-> way.e, g |-> way.g]

\* re.search(pattern, s)
Search(r, s) == Scan(r, s, 1)

\* match.group(0)
Group0(s, m) == SubSeq(s, m.start, m.end - 1)

\* match.group(k), k >= 1 (every group of the library takes part in a match)
Group(s, m, k) == SubSeq(s, m.g[k][1], m.g[k][2] - 1)

\* re.findall(r, s): the texts of the non-overlapping matches from pos on
RECURSIVE FindAllFrom(_, _, _)
FindAllFrom(r, s, pos) ==
    LET m == Scan(r, s, pos)
    IN  IF m.start = 0 THEN <<>>
        ELSE <<Group0(s, m)>>
                \o FindAllFrom(r, s, IF m.end > m.start THEN m.end ELSE m.end + 1)

FindAll(r, s) == FindAllFrom(r, s, 1)

(***************************************************************************)
(* CitationExtractor.__init__: the pattern library.  Each entry holds the  *)
(* pattern string of the source and the syntax tree re compiles it to.     *)
(***************************************************************************)
\* \[(\d+)\](?:\s*[A-Za-z\s\-\.\']+)?
Pattern1 ==
    [src |-> <<"\\", "[", "(", "\\", "d", "+", ")", "\\", "]", "(", "?", ":", "\\", "s", "*", "[", "A", "-", "Z", "a", "-", "z", "\\", "s", "\\", "-", "\\", ".", "\\", "'", "]", "+", ")", "?">>,
     re  |-> Cat(<<Cls({"["}), Grp(1, RepU(1, TRUE, Cls(Digit))), Cls({"]"}), RepN(0, 1, TRUE, Cat(<<RepU(0, TRUE, Cls(Space)), RepU(1, TRUE, Cls(Upper \cup Lower \cup Space \cup {"'", "-", "."}))>>))>>)]

\* \[(\d+(?:,\s*\d+)*)\]
Pattern2 ==
    [src |-> <<"\\", "[", "(", "\\", "d", "+", "(", "?", ":", ",", "\\", "s", "*", "\\", "d", "+", ")", "*", ")", "\\", "]">>,
     re  |-> Cat(<<Cls({"["}), Grp(1, Cat(<<RepU(1, TRUE, Cls(Digit)), RepU(0, TRUE, Cat(<<Cls({","}), RepU(0, TRUE, Cls(Space)), RepU(1, TRUE, Cls(Digit))>>))>>)), Cls({"]"})>>)]

\* \[(?:\d+)(?:\-\d+)*\]
Pattern3 ==
    [src |-> <<"\\", "[", "(", "?", ":", "\\", "d", "+", ")", "(", "?", ":", "\\", "-", "\\", "d", "+", ")", "*", "\\", "]">>,
     re  |-> Cat(<<Cls({"["}), RepU(1, TRUE, Cls(Digit)), RepU(0, TRUE, Cat(<<Cls({"-"}), RepU(1, TRUE, Cls(Digit))>>)), Cls({"]"})>>)]

\* \((\d+)\)
Pattern4 ==
    [src |-> <<"\\", "(", "(", "\\", "d", "+", ")", "\\", ")">>,
     re  |-> Cat(<<Cls({"("}), Grp(1, RepU(1, TRUE, Cls(Digit))), Cls({")"})>>)]

\* \((\d+(?:,\s*\d+)*)\)
Pattern5 ==
    [src |-> <<"\\", "(", "(", "\\", "d", "+", "(", "?", ":", ",", "\\", "s", "*", "\\", "d", "+", ")", "*", ")", "\\", ")">>,
     re  |-> Cat(<<Cls({"("}), Grp(1, Cat(<<RepU(1, TRUE, Cls(Digit)), RepU(0, TRUE, Cat(<<Cls({","}), RepU(0, TRUE, Cls(Space)), RepU(1, TRUE, Cls(Digit))>>))>>)), Cls({")"})>>)]

\* ([A-Z][a-z]+(?:\s+[A-Z][a-z]+)*)\s+et\s+al\.\s*\((\d{4})\)
Pattern6 ==
    [src |-> <<"(", "[", "A", "-", "Z", "]", "[", "a", "-", "z", "]", "+", "(", "?", ":", "\\", "s", "+", "[", "A", "-", "Z", "]", "[", "a", "-", "z", "]", "+", ")", "*", ")", "\\", "s", "+", "e", "t", "\\", "s", "+", "a", "l", "\\", ".", "\\", "s", "*", "\\", "(", "(", "\\", "d", "{", "4", "}", ")", "\\", ")">>,
     re  |-> Cat(<<Grp(1, Cat(<<Cls(Upper), RepU(1, TRUE, Cls(Lower)), RepU(0, TRUE, Cat(<<RepU(1, TRUE, Cls(Space)), Cls(Upper), RepU(1, TRUE, Cls(Lower))>>))>>)), RepU(1, TRUE, Cls(Space)), Lit(<<"e", "t">>), RepU(1, TRUE, Cls(Space)), Lit(<<"a", "l", ".">>), RepU(0, TRUE, Cls(Space)), Cls({"("}), Grp(2, RepN(4, 4, TRUE, Cls(Digit))), Cls({")"})>>)]

\* \(([A-Z][a-z]+(?:\s+[A-Z][a-z]+)*)\s+et\s+al\.\s*,\s*(\d{4})\)
Pattern7 ==
    [src |-> <<"\\", "(", "(", "[", "A", "-", "Z", "]", "[", "a", "-", "z", "]", "+", "(", "?", ":", "\\", "s", "+", "[", "A", "-", "Z", "]", "[", "a", "-", "z", "]", "+", ")", "*", ")", "\\", "s", "+", "e", "t", "\\", "s", "+", "a", "l", "\\", ".", "\\", "s", "*", ",", "\\", "s", "*", "(", "\\", "d", "{", "4", "}", ")", "\\", ")">>,
     re  |-> Cat(<<Cls({"("}), Grp(1, Cat(<<Cls(Upper), RepU(1, TRUE, Cls(Lower)), RepU(0, TRUE, Cat(<<RepU(1, TRUE, Cls(Space)), Cls(Upper), RepU(1, TRUE, Cls(Lower))>>))>>)), RepU(1, TRUE, Cls(Space)), Lit(<<"e", "t">>), RepU(1, TRUE, Cls(Space)), Lit(<<"a", "l", ".">>), RepU(0, TRUE, Cls(Space)), Cls({","}), RepU(0, TRUE, Cls(Space)), Grp(2, RepN(4, 4, TRUE, Cls(Digit))), Cls({")"})>>)]

\* ([A-Z][a-z]+(?:\s+[A-Z][a-z]+)*)\s*\((\d{4})\)
Pattern8 ==
    [src |-> <<"(", "[", "A", "-", "Z", "]", "[", "a", "-", "z", "]", "+", "(", "?", ":", "\\", "s", "+", "[", "A", "-", "Z", "]", "[", "a", "-", "z", "]", "+", ")", "*", ")", "\\", "s", "*", "\\", "(", "(", "\\", "d", "{", "4", "}", ")", "\\", ")">>,
     re  |-> Cat(<<Grp(1, Cat(<<Cls(Upper), RepU(1, TRUE, Cls(Lower)), RepU(0, TRUE, Cat(<<RepU(1, TRUE, Cls(Space)), Cls(Upper), RepU(1, TRUE, Cls(Lower))>>))>>)), RepU(0, TRUE, Cls(Space)), Cls({"("}), Grp(2, RepN(4, 4, TRUE, Cls(Digit))), Cls({")"})>>)]

\* \(([A-Z][a-z]+(?:\s+[A-Z][a-z]+)*)\s*,\s*(\d{4})\)
Pattern9 ==
    [src |-> <<"\\", "(", "(", "[", "A", "-", "Z", "]", "[", "a", "-", "z", "]", "+", "(", "?", ":", "\\", "s", "+", "[", "A", "-", "Z", "]", "[", "a", "-", "z", "]", "+", ")", "*", ")", "\\", "s", "*", ",", "\\", "s", "*", "(", "\\", "d", "{", "4", "}", ")", "\\", ")">>,
     re  |-> Cat(<<Cls({"("}), Grp(1, Cat(<<Cls(Upper), RepU(1, TRUE, Cls(Lower)), RepU(0, TRUE, Cat(<<RepU(1, TRUE, Cls(Space)), Cls(Upper), RepU(1, TRUE, Cls(Lower))>>))>>)), RepU(0, TRUE, Cls(Space)), Cls({","}), RepU(0, TRUE, Cls(Space)), Grp(2, RepN(4, 4, TRUE, Cls(Digit))), Cls({")"})>>)]

\* ([A-Z][a-z]+(?:\s+[A-Z][a-z]+)*)\s+and\s+([A-Z][a-z]+(?:\s+[A-Z][a-z]+)*)\s*\((\d{4})\)
Pattern10 ==
    [src |-> <<"(", "[", "A", "-", "Z", "]", "[", "a", "-", "z", "]", "+", "(", "?", ":", "\\", "s", "+", "[", "A", "-", "Z", "]", "[", "a", "-", "z", "]", "+", ")", "*", ")", "\\", "s", "+", "a", "n", "d", "\\", "s", "+", "(", "[", "A", "-", "Z", "]", "[", "a", "-", "z", "]", "+", "(", "?", ":", "\\", "s", "+", "[", "A", "-", "Z", "]", "[", "a", "-", "z", "]", "+", ")", "*", ")", "\\", "s", "*", "\\", "(", "(", "\\", "d", "{", "4", "}", ")", "\\", ")">>,
     re  |-> Cat(<<Grp(1, Cat(<<Cls(Upper), RepU(1, TRUE, Cls(Lower)), RepU(0, TRUE, Cat(<<RepU(1, TRUE, Cls(Space)), Cls(Upper), RepU(1, TRUE, Cls(Lower))>>))>>)), RepU(1, TRUE, Cls(Space)), Lit(<<"a", "n", "d">>), RepU(1, TRUE, Cls(Space)), Grp(2, Cat(<<Cls(Upper), RepU(1, TRUE, Cls(Lower)), RepU(0, TRUE, Cat(<<RepU(1, TRUE, Cls(Space)), Cls(Upper), RepU(1, TRUE, Cls(Lower))>>))>>)), RepU(0, TRUE, Cls(Space)), Cls({"("}), Grp(3, RepN(4, 4, TRUE, Cls(Digit))), Cls({")"})>>)]

\* \(([A-Z][a-z]+(?:\s+[A-Z][a-z]+)*)\s+and\s+([A-Z][a-z]+(?:\s+[A-Z][a-z]+)*),\s*(\d{4})\)
Pattern11 ==
    [src |-> <<"\\", "(", "(", "[", "A", "-", "Z", "]", "[", "a", "-", "z", "]", "+", "(", "?", ":", "\\", "s", "+", "[", "A", "-", "Z", "]", "[", "a", "-", "z", "]", "+", ")", "*", ")", "\\", "s", "+", "a", "n", "d", "\\", "s", "+", "(", "[", "A", "-", "Z", "]", "[", "a", "-", "z", "]", "+", "(", "?", ":", "\\", "s", "+", "[", "A", "-", "Z", "]", "[", "a", "-", "z", "]", "+", ")", "*", ")", ",", "\\", "s", "*", "(", "\\", "d", "{", "4", "}", ")", "\\", ")">>,
     re  |-> Cat(<<Cls({"("}), Grp(1, Cat(<<Cls(Upper), RepU(1, TRUE, Cls(Lower)), RepU(0, TRUE, Cat(<<RepU(1, TRUE, Cls(Space)), Cls(Upper), RepU(1, TRUE, Cls(Lower))>>))>>)), RepU(1, TRUE, Cls(Space)), Lit(<<"a", "n", "d">>), RepU(1, TRUE, Cls(Space)), Grp(2, Cat(<<Cls(Upper), RepU(1, TRUE, Cls(Lower)), RepU(0, TRUE, Cat(<<RepU(1, TRUE, Cls(Space)), Cls(Upper), RepU(1, TRUE, Cls(Lower))>>))>>)), Cls({","}), RepU(0, TRUE, Cls(Space)), Grp(3, RepN(4, 4, TRUE, Cls(Digit))), Cls({")"})>>)]

\* \[([A-Za-z]+\d{2}(?:[a-z])?)\]
Pattern12 ==
    [src |-> <<"\\", "[", "(", "[", "A", "-", "Z", "a", "-", "z", "]", "+", "\\", "d", "{", "2", "}", "(", "?", ":", "[", "a", "-", "z", "]", ")", "?", ")", "\\", "]">>,
     re  |-> Cat(<<Cls({"["}), Grp(1, Cat(<<RepU(1, TRUE, Cls(Upper \cup Lower)), RepN(2, 2, TRUE, Cls(Digit)), RepN(0, 1, TRUE, Cls(Lower))>>)), Cls({"]"})>>)]

\* ([A-Z][a-z]+(?:\s+[A-Z][a-z]+)*)\s+et\s+al\.\s*\((\d{4}(?:[a-z])?)\)
Pattern13 ==
    [src |-> <<"(", "[", "A", "-", "Z", "]", "[", "a", "-", "z", "]", "+", "(", "?", ":", "\\", "s", "+", "[", "A", "-", "Z", "]", "[", "a", "-", "z", "]", "+", ")", "*", ")", "\\", "s", "+", "e", "t", "\\", "s", "+", "a", "l", "\\", ".", "\\", "s", "*", "\\", "(", "(", "\\", "d", "{", "4", "}", "(", "?", ":", "[", "a", "-", "z", "]", ")", "?", ")", "\\", ")">>,
     re  |-> Cat(<<Grp(1, Cat(<<Cls(Upper), RepU(1, TRUE, Cls(Lower)), RepU(0, TRUE, Cat(<<RepU(1, TRUE, Cls(Space)), Cls(Upper), RepU(1, TRUE, Cls(Lower))>>))>>)), RepU(1, TRUE, Cls(Space)), Lit(<<"e", "t">>), RepU(1, TRUE, Cls(Space)), Lit(<<"a", "l", ".">>), RepU(0, TRUE, Cls(Space)), Cls({"("}), Grp(2, Cat(<<RepN(4, 4, TRUE, Cls(Digit)), RepN(0, 1, TRUE, Cls(Lower))>>)), Cls({")"})>>)]

\* \(([A-Z][a-z]+(?:\s+[A-Z][a-z]+)*)\s+et\s+al\.\s*,\s*(\d{4}(?:[a-z])?)\)
Pattern14 ==
    [src |-> <<"\\", "(", "(", "[", "A", "-", "Z", "]", "[", "a", "-", "z", "]", "+", "(", "?", ":", "\\", "s", "+", "[", "A", "-", "Z", "]", "[", "a", "-", "z", "]", "+", ")", "*", ")", "\\", "s", "+", "e", "t", "\\", "s", "+", "a", "l", "\\", ".", "\\", "s", "*", ",", "\\", "s", "*", "(", "\\", "d", "{", "4", "}", "(", "?", ":", "[", "a", "-", "z", "]", ")", "?", ")", "\\", ")">>,
     re  |-> Cat(<<Cls({"("}), Grp(1, Cat(<<Cls(Upper), RepU(1, TRUE, Cls(Lower)), RepU(0, TRUE, Cat(<<RepU(1, TRUE, Cls(Space)), Cls(Upper), RepU(1, TRUE, Cls(Lower))>>))>>)), RepU(1, TRUE, Cls(Space)), Lit(<<"e", "t">>), RepU(1, TRUE, Cls(Space)), Lit(<<"a", "l", ".">>), RepU(0, TRUE, Cls(Space)), Cls({","}), RepU(0, TRUE, Cls(Space)), Grp(2, Cat(<<RepN(4, 4, TRUE, Cls(Digit)), RepN(0, 1, TRUE, Cls(Lower))>>)), Cls({")"})>>)]

\* ([A-Z][a-z]+(?:\s+[A-Z][a-z]+)*)(?:\s*,\s*[A-Z][a-z]+(?:\s+[A-Z][a-z]+)*)*\s+et\s+al\.\s*\((\d{4})\)
Pattern15 ==
    [src |-> <<"(", "[", "A", "-", "Z", "]", "[", "a", "-", "z", "]", "+", "(", "?", ":", "\\", "s", "+", "[", "A", "-", "Z", "]", "[", "a", "-", "z", "]", "+", ")", "*", ")", "(", "?", ":", "\\", "s", "*", ",", "\\", "s", "*", "[", "A", "-", "Z", "]", "[", "a", "-", "z", "]", "+", "(", "?", ":", "\\", "s", "+", "[", "A", "-", "Z", "]", "[", "a", "-", "z", "]", "+", ")", "*", ")", "*", "\\", "s", "+", "e", "t", "\\", "s", "+", "a", "l", "\\", ".", "\\", "s", "*", "\\", "(", "(", "\\", "d", "{", "4", "}", ")", "\\", ")">>,
     re  |-> Cat(<<Grp(1, Cat(<<Cls(Upper), RepU(1, TRUE, Cls(Lower)), RepU(0, TRUE, Cat(<<RepU(1, TRUE, Cls(Space)), Cls(Upper), RepU(1, TRUE, Cls(Lower))>>))>>)), RepU(0, TRUE, Cat(<<RepU(0, TRUE, Cls(Space)), Cls({","}), RepU(0, TRUE, Cls(Space)), Cls(Upper), RepU(1, TRUE, Cls(Lower)), RepU(0, TRUE, Cat(<<RepU(1, TRUE, Cls(Space)), Cls(Upper), RepU(1, TRUE, Cls(Lower))>>))>>)), RepU(1, TRUE, Cls(Space)), Lit(<<"e", "t">>), RepU(1, TRUE, Cls(Space)), Lit(<<"a", "l", ".">>), RepU(0, TRUE, Cls(Space)), Cls({"("}), Grp(2, RepN(4, 4, TRUE, Cls(Digit))), Cls({")"})>>)]

\* \(([A-Z][a-z]+(?:\s+[A-Z][a-z]+)*)(?:\s*,\s*[A-Z][a-z]+(?:\s+[A-Z][a-z]+)*)*\s+et\s+al\.\s*,\s*(\d{4})\)
Pattern16 ==
    [src |-> <<"\\", "(", "(", "[", "A", "-", "Z", "]", "[", "a", "-", "z", "]", "+", "(", "?", ":", "\\", "s", "+", "[", "A", "-", "Z", "]", "[", "a", "-", "z", "]", "+", ")", "*", ")", "(", "?", ":", "\\", "s", "*", ",", "\\", "s", "*", "[", "A", "-", "Z", "]", "[", "a", "-", "z", "]", "+", "(", "?", ":", "\\", "s", "+", "[", "A", "-", "Z", "]", "[", "a", "-", "z", "]", "+", ")", "*", ")", "*", "\\", "s", "+", "e", "t", "\\", "s", "+", "a", "l", "\\", ".", "\\", "s", "*", ",", "\\", "s", "*", "(", "\\", "d", "{", "4", "}", ")", "\\", ")">>,
     re  |-> Cat(<<Cls({"("}), Grp(1, Cat(<<Cls(Upper), RepU(1, TRUE, Cls(Lower)), RepU(0, TRUE, Cat(<<RepU(1, TRUE, Cls(Space)), Cls(Upper), RepU(1, TRUE, Cls(Lower))>>))>>)), RepU(0, TRUE, Cat(<<RepU(0, TRUE, Cls(Space)), Cls({","}), RepU(0, TRUE, Cls(Space)), Cls(Upper), RepU(1, TRUE, Cls(Lower)), RepU(0, TRUE, Cat(<<RepU(1, TRUE, Cls(Space)), Cls(Upper), RepU(1, TRUE, Cls(Lower))>>))>>)), RepU(1, TRUE, Cls(Space)), Lit(<<"e", "t">>), RepU(1, TRUE, Cls(Space)), Lit(<<"a", "l", ".">>), RepU(0, TRUE, Cls(Space)), Cls({","}), RepU(0, TRUE, Cls(Space)), Grp(2, RepN(4, 4, TRUE, Cls(Digit))), Cls({")"})>>)]

\* ([A-Z][a-z]+(?:\s+[A-Z][a-z]+)*)\s*\((\d{4}),\s*p\.\s*\d+\)
Pattern17 ==
    [src |-> <<"(", "[", "A", "-", "Z", "]", "[", "a", "-", "z", "]", "+", "(", "?", ":", "\\", "s", "+", "[", "A", "-", "Z", "]", "[", "a", "-", "z", "]", "+", ")", "*", ")", "\\", "s", "*", "\\", "(", "(", "\\", "d", "{", "4", "}", ")", ",", "\\", "s", "*", "p", "\\", ".", "\\", "s", "*", "\\", "d", "+", "\\", ")">>,
     re  |-> Cat(<<Grp(1, Cat(<<Cls(Upper), RepU(1, TRUE, Cls(Lower)), RepU(0, TRUE, Cat(<<RepU(1, TRUE, Cls(Space)), Cls(Upper), RepU(1, TRUE, Cls(Lower))>>))>>)), RepU(0, TRUE, Cls(Space)), Cls({"("}), Grp(2, RepN(4, 4, TRUE, Cls(Digit))), Cls({","}), RepU(0, TRUE, Cls(Space)), Lit(<<"p", ".">>), RepU(0, TRUE, Cls(Space)), RepU(1, TRUE, Cls(Digit)), Cls({")"})>>)]

\* \(([A-Z][a-z]+(?:\s+[A-Z][a-z]+)*)\s*,\s*(\d{4}),\s*p\.\s*\d+\)
Pattern18 ==
    [src |-> <<"\\", "(", "(", "[", "A", "-", "Z", "]", "[", "a", "-", "z", "]", "+", "(", "?", ":", "\\", "s", "+", "[", "A", "-", "Z", "]", "[", "a", "-", "z", "]", "+", ")", "*", ")", "\\", "s", "*", ",", "\\", "s", "*", "(", "\\", "d", "{", "4", "}", ")", ",", "\\", "s", "*", "p", "\\", ".", "\\", "s", "*", "\\", "d", "+", "\\", ")">>,
     re  |-> Cat(<<Cls({"("}), Grp(1, Cat(<<Cls(Upper), RepU(1, TRUE, Cls(Lower)), RepU(0, TRUE, Cat(<<RepU(1, TRUE, Cls(Space)), Cls(Upper), RepU(1, TRUE, Cls(Lower))>>))>>)), RepU(0, TRUE, Cls(Space)), Cls({","}), RepU(0, TRUE, Cls(Space)), Grp(2, RepN(4, 4, TRUE, Cls(Digit))), Cls({","}), RepU(0, TRUE, Cls(Space)), Lit(<<"p", ".">>), RepU(0, TRUE, Cls(Space)), RepU(1, TRUE, Cls(Digit)), Cls({")"})>>)]

\* ([A-Z][a-z]+(?:\s+[A-Z][a-z]+)*)\s*\((\d{4}),\s*vol\.\s*\d+\)
Pattern19 ==
    [src |-> <<"(", "[", "A", "-", "Z", "]", "[", "a", "-", "z", "]", "+", "(", "?", ":", "\\", "s", "+", "[", "A", "-", "Z", "]", "[", "a", "-", "z", "]", "+", ")", "*", ")", "\\", "s", "*", "\\", "(", "(", "\\", "d", "{", "4", "}", ")", ",", "\\", "s", "*", "v", "o", "l", "\\", ".", "\\", "s", "*", "\\", "d", "+", "\\", ")">>,
     re  |-> Cat(<<Grp(1, Cat(<<Cls(Upper), RepU(1, TRUE, Cls(Lower)), RepU(0, TRUE, Cat(<<RepU(1, TRUE, Cls(Space)), Cls(Upper), RepU(1, TRUE, Cls(Lower))>>))>>)), RepU(0, TRUE, Cls(Space)), Cls({"("}), Grp(2, RepN(4, 4, TRUE, Cls(Digit))), Cls({","}), RepU(0, TRUE, Cls(Space)), Lit(<<"v", "o", "l", ".">>), RepU(0, TRUE, Cls(Space)), RepU(1, TRUE, Cls(Digit)), Cls({")"})>>)]

\* \(([A-Z][a-z]+(?:\s+[A-Z][a-z]+)*)\s*,\s*(\d{4}),\s*vol\.\s*\d+\)
Pattern20 ==
    [src |-> <<"\\", "(", "(", "[", "A", "-", "Z", "]", "[", "a", "-", "z", "]", "+", "(", "?", ":", "\\", "s", "+", "[", "A", "-", "Z", "]", "[", "a", "-", "z", "]", "+", ")", "*", ")", "\\", "s", "*", ",", "\\", "s", "*", "(", "\\", "d", "{", "4", "}", ")", ",", "\\", "s", "*", "v", "o", "l", "\\", ".", "\\", "s", "*", "\\", "d", "+", "\\", ")">>,
     re  |-> Cat(<<Cls({"("}), Grp(1, Cat(<<Cls(Upper), RepU(1, TRUE, Cls(Lower)), RepU(0, TRUE, Cat(<<RepU(1, TRUE, Cls(Space)), Cls(Upper), RepU(1, TRUE, Cls(Lower))>>))>>)), RepU(0, TRUE, Cls(Space)), Cls({","}), RepU(0, TRUE, Cls(Space)), Grp(2, RepN(4, 4, TRUE, Cls(Digit))), Cls({","}), RepU(0, TRUE, Cls(Space)), Lit(<<"v", "o", "l", ".">>), RepU(0, TRUE, Cls(Space)), RepU(1, TRUE, Cls(Digit)), Cls({")"})>>)]

\* (?:References|Bibliography|Works Cited)\s*\n+(.*?)(?:\n\n|\Z)  (DOTALL | IGNORECASE)
ReferencesRe ==
    Cat(<<Alt(<<LitI(<<"R", "e", "f", "e", "r", "e", "n", "c", "e", "s">>), LitI(<<"B", "i", "b", "l", "i", "o", "g", "r", "a", "p", "h", "y">>), LitI(<<"W", "o", "r", "k", "s", " ", "C", "i", "t", "e", "d">>)>>), RepU(0, TRUE, Cls(Space)), RepU(1, TRUE, Cls({"\n"})), Grp(1, RepU(0, FALSE, AnyChar)), Alt(<<LitI(<<"\n", "\n">>), Eos>>)>>)

PatternTable ==
    <<Pattern1, Pattern2, Pattern3, Pattern4, Pattern5, Pattern6, Pattern7,
      Pattern8, Pattern9, Pattern10, Pattern11, Pattern12, Pattern13,
      Pattern14, Pattern15, Pattern16, Pattern17, Pattern18, Pattern19,
      Pattern20>>

\* self.patterns as __init__ builds it: the list of pattern strings
PatternLibrary == [k \in DOMAIN PatternTable |-> PatternTable[k].src]

\* re's compilation of a pattern string of the library
Compile(pattern) ==
    PatternTable[CHOOSE k \in DOMAIN PatternTable : PatternTable[k].src = pattern].re

\* \d+
NumberRe == RepU(1, TRUE, Cls(Digit))

(***************************************************************************)
(* CitationExtractor                                                       *)
(***************************************************************************)
Inline == <<"i", "n", "l", "i", "n", "e">>

Reference == <<"r", "e", "f", "e", "r", "e", "n", "c", "e">>

Underscore == <<"_">>

ContextWidth == 50

\* int(s) for the strings the year patterns capture; -1 stands for ValueError
RECURSIVE ParseInt(_, _, _)
ParseInt(s, k, acc) ==
    IF s = <<>> THEN -1
    ELSE IF k > Len(s) THEN acc
    ELSE IF s[k] \notin Digit THEN -1
    ELSE ParseInt(s, k + 1,
                  10 * acc + (CHOOSE d \in 0..9 :
                                <<"0", "1", "2", "3", "4", "5", "6", "7", "8", "9">>[d + 1] = s[k]))

\* _validate_year, with current_year the year of datetime.now()
ValidateYear(year, current_year) ==
    LET stripped == IF year # <<>> /\ year[Len(year)] \in Lower
                    THEN SubSeq(year, 1, Len(year) - 1) ELSE year
        year_int == ParseInt(stripped, 1, 0)
    IN  year_int # -1 /\ 1800 <= year_int /\ year_int <= current_year + 1

\* _validate_author
ValidateAuthor(author) ==
    /\ \E k \in DOMAIN author : author[k] \notin Space
    /\ author # <<>>
    /\ \A k \in DOMAIN author :
          author[k] \in Upper \cup Lower \cup Space \cup {"-", ".", "'"}
    /\ Len(author) >= 2

\* current_text[max(0, match.start() - 50):min(len(current_text), match.end() + 50)].strip()
Context(current_text, m) ==
    LET start0 == m.start - 1
        end0   == m.end - 1
        lo == IF start0 - ContextWidth > 0 THEN start0 - ContextWidth ELSE 0
        hi == IF end0 + ContextWidth < Len(current_text)
              THEN end0 + ContextWidth ELSE Len(current_text)
    IN  Strip(Slice(current_text, lo, hi))

\* the test of line 117 as a test for a rule that matches a literal '['
IsNumericalMatchLiteralBracket(pattern, group0) ==
    Contains(<<"\\", "[">>, pattern)

\* the test of line 117, as Python's precedence reads it: a or (b and c)
IsNumericalMatch(pattern, group0) ==
    \/ Contains(<<"[">>, pattern)
    \/ /\ Contains(<<"(">>, pattern)
       /\ \E k \in DOMAIN group0 : group0[k] \in Digit

\* KeepIfNew without the membership test: every candidate is appended
KeepAlways(acc, citation, citation_key) ==
    [citations |-> Append(acc.citations, citation),
     seen_citations |-> acc.seen_citations \cup {citation_key}]

\* KeepIfNew where a repeated key replaces the record kept for it: the
\* earlier record with the candidate's fields is dropped and the candidate
\* is appended
KeepLatest(acc, citation, citation_key) ==
    IF citation_key \in acc.seen_citations
    THEN [citations |->
            Append(SelectSeq(acc.citations,
                             LAMBDA c : ~(/\ c.citation_type = citation.citation_type
                                          /\ DOMAIN c = DOMAIN citation
                                          /\ c = [citation EXCEPT !.context = c.context])),
                   citation),
          seen_citations |-> acc.seen_citations]
    ELSE [citations |-> Append(acc.citations, citation),
          seen_citations |-> acc.seen_citations \cup {citation_key}]

\* if citation_key not in seen_citations: append and add
KeepIfNew(acc, citation, citation_key) ==
    IF citation_key \in acc.seen_citations THEN acc
    ELSE [citations |-> Append(acc.citations, citation),
          seen_citations |-> acc.seen_citations \cup {citation_key}]

NumericalCitation(citation_text, num, citation_type, context) ==
    [citation_text |-> citation_text, number |-> num, type |-> "numerical",
     citation_type |-> citation_type, context |-> context]

NumericalKey(citation_type, citation_text, num) ==
    citation_type \o Underscore \o citation_text \o Underscore \o num

\* for num in numbers: ... (lines 124-135), from numbers[k] on
RECURSIVE EachNumber(_, _, _, _, _, _)
EachNumber(acc, numbers, k, citation_text, citation_type, context) ==
    IF k > Len(numbers) THEN acc
    ELSE EachNumber(
            KeepIfNew(acc,
                      NumericalCitation(citation_text, numbers[k], citation_type, context),
                      NumericalKey(citation_type, citation_text, numbers[k])),
            numbers, k + 1, citation_text, citation_type, context)

\* match.group(k).strip() raises (and the match is skipped) when the pattern
\* has no group k or the group took no part in the match
HasGroups(m, n) == \A k \in 1..n : m.g[k] # <<0, 0>>

\* The body of the loop over matches (lines 116-171) for one match m of
\* pattern in current_text: the accumulators after it.
ProcessMatch(acc, pattern, current_text, citation_type, m, current_year) ==
    LET group0  == Group0(current_text, m)
        context == Context(current_text, m)
    IN  IF IsNumericalMatch(pattern, group0)
        THEN LET numbers == FindAll(NumberRe, group0)
                 last    == numbers[Len(numbers)]
             IN  IF numbers = <<>> THEN acc
                 ELSE \* line 164 runs again with the last number's record
                      KeepIfNew(
                        EachNumber(acc, numbers, 1, group0, citation_type, context),
                        NumericalCitation(group0, last, citation_type, context),
                        NumericalKey(citation_type, group0, last))
        ELSE IF Contains(<<"a", "n", "d">>, pattern)
        THEN IF ~HasGroups(m, 3) THEN acc
             ELSE LET author1 == Strip(Group(current_text, m, 1))
                      author2 == Strip(Group(current_text, m, 2))
                      year    == Strip(Group(current_text, m, 3))
                  IN  IF ~(ValidateAuthor(author1) /\ ValidateAuthor(author2)
                            /\ ValidateYear(year, current_year))
                      THEN acc
                      ELSE KeepIfNew(acc,
                             [authors |-> <<author1, author2>>, year |-> year,
                              citation_type |-> citation_type, context |-> context],
                             citation_type \o Underscore \o author1 \o Underscore
                                \o author2 \o Underscore \o year)
        ELSE IF ~HasGroups(m, 2) THEN acc
             ELSE LET author == Strip(Group(current_text, m, 1))
                      year   == Strip(Group(current_text, m, 2))
                  IN  IF ~(ValidateAuthor(author) /\ ValidateYear(year, current_year))
                      THEN acc
                      ELSE KeepIfNew(acc,
                             [author |-> author, year |-> year,
                              citation_type |-> citation_type, context |-> context],
                             citation_type \o Underscore \o author \o Underscore \o year)

\* references_text of lines 106-107
ReferencesText(text) ==
    LET references_match == Search(ReferencesRe, text)
    IN  IF references_match.start # 0 THEN Group(text, references_match, 1) ELSE <<>>

\* texts_to_process with the two tags exchanged
TextsToProcessSwapped(text, references_text) ==
    <<[current_text |-> text, citation_type |-> Reference],
      [current_text |-> references_text, citation_type |-> Inline]>>

\* texts_to_process of line 110
TextsToProcess(text, references_text) ==
    <<[current_text |-> text, citation_type |-> Inline],
      [current_text |-> references_text, citation_type |-> Reference]>>

\* where the scan of a pattern resumes after match m (no pattern of the
\* library matches the empty string)
NextPos(m) == IF m.end > m.start THEN m.end ELSE m.end + 1

\* the empty-text test left out
NotTextNever(text) == FALSE

\* `not text`
NotText(text) == text = <<>>

\* None
PyNone == <<"<None>">>

\* line 193
EmptyTextError ==
    <<"E", "m", "p", "t", "y", " ", "t", "e", "x", "t", " ", "p", "r", "o", "v", "i", "d", "e", "d">>

\* process_text(text), given what its call of extract_citations returns
ProcessTextResult(text, citations) ==
    IF NotText(text)
    THEN [success |-> FALSE, citations |-> <<>>, error |-> EmptyTextError]
    ELSE [success |-> TRUE, citations |-> citations, error |-> PyNone]

(***************************************************************************)
(* Inputs of the extractor                                                 *)
(***************************************************************************)
\* 'See [1] and [2,3] for details.'
SeeOneAndTwoThree ==
    <<"S", "e", "e", " ", "[", "1", "]", " ", "a", "n", "d", " ", "[", "2", ",", "3", "]", " ", "f", "o", "r", " ", "d", "e", "t", "a", "i", "l", "s", ".">>

\* 'Smith (2020) showed X. \n\nReferences\nSmith, J. (2020). Title.'
SmithShowed ==
    <<"S", "m", "i", "t", "h", " ", "(", "2", "0", "2", "0", ")", " ", "s", "h", "o", "w", "e", "d", " ", "X", ".", " ", "\n", "\n", "R", "e", "f", "e", "r", "e", "n", "c", "e", "s", "\n", "S", "m", "i", "t", "h", ",", " ", "J", ".", " ", "(", "2", "0", "2", "0", ")", ".", " ", "T", "i", "t", "l", "e", ".">>

\* 'Smith (2020)'
SmithYear ==
    <<"S", "m", "i", "t", "h", " ", "(", "2", "0", "2", "0", ")">>

\* 'Smith (1700)'
SmithOldYear ==
    <<"S", "m", "i", "t", "h", " ", "(", "1", "7", "0", "0", ")">>

MaxPieces == 2

MaxCalls == 2

Pieces ==
    {<<"[", "1", "]">>,
     <<"[", "1", ",", "2", "]">>,
     <<" ">>,
     <<"S", "m", " ", "(", "2", "0", "2", "0", ")">>,
     <<"(", "7", ")">>,
     <<"J", "o", " ", "e", "t", " ", "a", "l", ".", " ", "(", "1", "9", "9", "9", "a", ")">>,
     <<"(", "S", "m", " ", "a", "n", "d", " ", "J", "o", ",", " ", "1", "7", "0", "0", ")">>,
     <<"R", "e", "f", "e", "r", "e", "n", "c", "e", "s", "\n">>,
     <<"\n", "\n">>}

RECURSIVE Join(_)
Join(ps) == IF ps = <<>> THEN <<>> ELSE Head(ps) \o Join(Tail(ps))

PieceTexts == {Join(ps) : ps \in UNION {[1..n -> Pieces] : n \in 0..MaxPieces}}

ScenarioTexts == {SeeOneAndTwoThree, SmithShowed, SmithYear, SmithOldYear}

Texts == PieceTexts \cup ScenarioTexts

\* the years datetime.now() may report
ClockYears == {2025, 2026}

\* who calls the extractor: two direct callers, and the agent
Callers == {"user", "other", "agent"}

Entries == {"extract_citations", "process_text"}

(***************************************************************************)
(* State                                                                   *)
(***************************************************************************)
VARIABLES
    patterns,   \* self.patterns of the CitationExtractor
    call,       \* per caller: the locals of its running extract_citations
    returned,   \* per caller: what its calls have returned so far
    agent,      \* ResearcherAgent.run: its task, what it delegated, its result
    created,    \* create_research_agent: the tools' construction, its result
    api,        \* a direct call of search_papers, process_paper or
                \* extract_citations of the agent, and its result
    normalizer, \* ArxivSearch._preprocess_query: its arguments and result
    now,        \* time.time()
    last_request_time,  \* ArxivSearch.last_request_time
    transfer,   \* the running ArxivSearch.search or PDFProcessor.download_pdf
    requests    \* the external calls issued so far, with their times

agentVars == <<agent, created, api>>

searchVars == <<normalizer, now, last_request_time, transfer, requests>>

vars == <<patterns, call, returned, agent, created, api,
          normalizer, now, last_request_time, transfer, requests>>

IdleCall ==
    [pc |-> "idle", entry |-> "none", text |-> <<>>, references_text |-> <<>>,
     ri |-> 1, pi |-> 1, pos |-> 1, citations |-> <<>>, seen_citations |-> {}]

IdleAgent ==
    [pc |-> "idle", task |-> [type |-> "NoneType", v |-> <<>>],
     delegated |-> <<>>, result |-> [pending |-> TRUE]]

\* what entry returns when extract_citations returned citations
Result(entry, text, citations) ==
    IF entry = "process_text"
    THEN [entry |-> entry, text |-> text, value |-> ProcessTextResult(text, citations)]
    ELSE [entry |-> entry, text |-> text, value |-> citations]

\* ArxivSearch.__init__: last_request_time = None.  The field is only read
\* by the test `if self.last_request_time:`, which None fails as 0.0 does
NoRequestTime == 0

\* the truth value of a time
Truthy(time) == time # 0

Idle == [pc |-> "idle"]

Init ==
    /\ patterns = PatternLibrary
    /\ call = [c \in Callers |-> IdleCall]
    /\ returned = [c \in Callers |-> <<>>]
    /\ agent = IdleAgent
    /\ created = Idle
    /\ api = Idle
    /\ normalizer = Idle
    /\ now = 1
    /\ last_request_time = NoRequestTime
    /\ transfer = Idle
    /\ requests = <<>>

(***************************************************************************)
(* CitationExtractor.extract_citations and process_text, step by step      *)
(***************************************************************************)
\* the list of the previous call used again instead of a new one
KeptCitations ==
    LET before == returned["user"]
    IN  IF before = <<>> THEN <<>>
        ELSE IF before[Len(before)].entry = "process_text"
             THEN before[Len(before)].value.citations
             ELSE before[Len(before)].value

\* citations = [] (line 102)
NewCitations == <<>>

\* caller c enters entry on text t: lines 98-110 (process_text: 186-197)
StartCall(c, entry, t) ==
    /\ call[c].pc = "idle"
    /\ IF NotText(t)
       THEN /\ returned' = [returned EXCEPT ![c] = Append(@, Result(entry, t, <<>>))]
            /\ UNCHANGED call
       ELSE /\ call' = [call EXCEPT ![c] =
                          [pc |-> "scan", entry |-> entry, text |-> t,
                           references_text |-> ReferencesText(t),
                           ri |-> 1, pi |-> 1, pos |-> 1,
                           citations |-> NewCitations, seen_citations |-> {}]]
            /\ UNCHANGED returned
    /\ UNCHANGED <<patterns, created, searchVars>>

\* a direct caller calls entry on text t, and repeats its first call
Invoke(c, entry, t) ==
    /\ Len(returned[c]) < MaxCalls
    /\ returned[c] # <<>> =>
          t = returned[c][1].text /\ entry = returned[c][1].entry
    /\ StartCall(c, entry, t)
    /\ UNCHANGED <<agent, api>>

\* the region the loops of call record k are in
Region(k) == TextsToProcess(k.text, k.references_text)[k.ri]

\* the next match of the running finditer of call record k
NextHit(k) == Scan(Compile(patterns[k.pi]), Region(k).current_text, k.pos)

\* the accumulators kept on the extractor, where every running call finds
\* those of one of the running calls
SharedAccumulators(c) ==
    LET owner == CHOOSE d \in Callers : call[d].pc = "scan"
    IN  [citations |-> call[owner].citations,
         seen_citations |-> call[owner].seen_citations]

\* citations and seen_citations are locals of the call (lines 102-103)
Accumulators(c) ==
    [citations |-> call[c].citations, seen_citations |-> call[c].seen_citations]

\* one iteration of `for match in matches` (lines 115-171)
MatchStep(c) ==
    LET k == call[c]
    IN  /\ k.pc = "scan"
        /\ LET m == NextHit(k)
           IN  /\ m.start # 0
               /\ \E current_year \in ClockYears :
                    LET acc == ProcessMatch(
                                 Accumulators(c),
                                 patterns[k.pi], Region(k).current_text,
                                 Region(k).citation_type, m, current_year)
                    IN  call' = [call EXCEPT ![c] =
                                   [k EXCEPT !.citations = acc.citations,
                                             !.seen_citations = acc.seen_citations,
                                             !.pos = NextPos(m)]]
        /\ UNCHANGED <<patterns, returned, agentVars, searchVars>>

\* finditer is exhausted: on to the next pattern (line 113)
NextPattern(c) ==
    LET k == call[c]
    IN  /\ k.pc = "scan"
        /\ k.pi < Len(patterns)
        /\ NextHit(k).start = 0
        /\ call' = [call EXCEPT ![c] = [k EXCEPT !.pi = k.pi + 1, !.pos = 1]]
        /\ UNCHANGED <<patterns, returned, agentVars, searchVars>>

\* the last pattern is exhausted: on to the next region (line 112)
NextRegion(c) ==
    LET k == call[c]
    IN  /\ k.pc = "scan"
        /\ k.pi = Len(patterns)
        /\ k.ri < Len(TextsToProcess(k.text, k.references_text))
        /\ NextHit(k).start = 0
        /\ call' = [call EXCEPT ![c] =
                      [k EXCEPT !.ri = k.ri + 1, !.pi = 1, !.pos = 1]]
        /\ UNCHANGED <<patterns, returned, agentVars, searchVars>>

\* both loops are done: return citations (line 174; process_text: 198-204)
Return(c) ==
    LET k == call[c]
    IN  /\ k.pc = "scan"
        /\ k.pi = Len(patterns)
        /\ k.ri = Len(TextsToProcess(k.text, k.references_text))
        /\ NextHit(k).start = 0
        /\ returned' = [returned EXCEPT ![c] =
                          Append(@, Result(k.entry, k.text, k.citations))]
        /\ call' = [call EXCEPT ![c] = IdleCall]
        /\ UNCHANGED <<patterns, agentVars, searchVars>>

\* the user calls the extractor
UserCall ==
    /\ call["user"].pc = "idle"
    /\ \E entry \in Entries, t \in Texts : Invoke("user", entry, t)

\* direct calls of the extractor
NextExtract ==
    \/ UserCall
    \/ MatchStep("user")
    \/ NextPattern("user")
    \/ NextRegion("user")
    \/ Return("user")

SpecExtract == Init /\ [][NextExtract]_vars

(***************************************************************************)
(* Two threads calling extract_citations on one CitationExtractor          *)
(***************************************************************************)
Threads == {"user", "other"}

ConcurrentTexts == {SmithYear, SeeOneAndTwoThree}

\* is caller d inside its first call
InFirstCall(d) == call[d].pc = "scan" /\ returned[d] = <<>>

\* thread c calls extract_citations: its first call while no other call
\* runs, its later calls, on the same text, at any time after the first
\* calls
ThreadCall(c) ==
    /\ call[c].pc = "idle"
    /\ \A d \in Threads \ {c} : ~InFirstCall(d)
    /\ returned[c] = <<>> => \A d \in Threads : call[d].pc = "idle"
    /\ \E t \in ConcurrentTexts : Invoke(c, "extract_citations", t)

\* the steps of the two threads, interleaved
NextConcurrent ==
    \E c \in Threads :
        \/ ThreadCall(c)
        \/ MatchStep(c)
        \/ NextPattern(c)
        \/ NextRegion(c)
        \/ Return(c)

SpecConcurrent == Init /\ [][NextConcurrent]_vars

(***************************************************************************)
(* ResearcherAgent                                                         *)
(***************************************************************************)
KwSearch ==
    <<"s", "e", "a", "r", "c", "h">>

KwPaper ==
    <<"p", "a", "p", "e", "r">>

KwPapers ==
    <<"p", "a", "p", "e", "r", "s">>

KwResearch ==
    <<"r", "e", "s", "e", "a", "r", "c", "h">>

KwDownload ==
    <<"d", "o", "w", "n", "l", "o", "a", "d">>

KwSummarize ==
    <<"s", "u", "m", "m", "a", "r", "i", "z", "e">>

KwRead ==
    <<"r", "e", "a", "d">>

KwCitation ==
    <<"c", "i", "t", "a", "t", "i", "o", "n">>

KwReference ==
    <<"r", "e", "f", "e", "r", "e", "n", "c", "e">>

KwAbout ==
    <<"a", "b", "o", "u", "t", " ">>

KwHttp ==
    <<"h", "t", "t", "p">>

\* line 105
InvalidTaskError ==
    <<"I", "n", "v", "a", "l", "i", "d", " ", "t", "a", "s", "k", ":", " ", "m", "u", "s", "t", " ", "b", "e", " ", "a", " ", "n", "o", "n", "-", "e", "m", "p", "t", "y", " ", "s", "t", "r", "i", "n", "g">>

\* line 130
NoUrlError ==
    <<"N", "o", " ", "U", "R", "L", " ", "f", "o", "u", "n", "d", " ", "i", "n", " ", "t", "a", "s", "k">>

\* line 139
InvalidUrlError ==
    <<"I", "n", "v", "a", "l", "i", "d", " ", "U", "R", "L", " ", "i", "n", " ", "t", "a", "s", "k">>

\* line 149
NoTextError ==
    <<"N", "o", " ", "t", "e", "x", "t", " ", "p", "r", "o", "v", "i", "d", "e", "d", " ", "f", "o", "r", " ", "c", "i", "t", "a", "t", "i", "o", "n", " ", "e", "x", "t", "r", "a", "c", "t", "i", "o", "n">>

\* line 153
EmptyCitationTextError ==
    <<"E", "m", "p", "t", "y", " ", "t", "e", "x", "t", " ", "f", "o", "r", " ", "c", "i", "t", "a", "t", "i", "o", "n", " ", "e", "x", "t", "r", "a", "c", "t", "i", "o", "n">>

\* line 159
UnknownTaskPrefix ==
    <<"U", "n", "k", "n", "o", "w", "n", " ", "t", "a", "s", "k", " ", "t", "y", "p", "e", ":", " ">>

\* pdf_processor.py line 166
DownloadFailedError ==
    <<"F", "a", "i", "l", "e", "d", " ", "t", "o", " ", "d", "o", "w", "n", "l", "o", "a", "d", " ", "P", "D", "F">>

\* pdf_processor.py line 171
ExtractFailedError ==
    <<"F", "a", "i", "l", "e", "d", " ", "t", "o", " ", "e", "x", "t", "r", "a", "c", "t", " ", "t", "e", "x", "t", " ", "f", "r", "o", "m", " ", "P", "D", "F">>

\* about (.+)
AboutRe == Cat(<<Lit(KwAbout), Grp(1, RepU(1, TRUE, Dot))>>)

\* s.replace(old, ""): s without the non-overlapping occurrences of old
RECURSIVE Remove(_, _)
Remove(s, old) ==
    LET at == Find(old, s)
    IN  IF at = -1 THEN s
        ELSE SubSeq(s, 1, at) \o Remove(SubSeq(s, at + Len(old) + 1, Len(s)), old)

\* a task is a Python value: its type and, for a str, its characters
PyStr(s) == [type |-> "str", v |-> s]

\* `not task`
NotTask(task) ==
    CASE task.type = "NoneType" -> TRUE
      [] task.type = "int" -> task.v = <<"0">>
      [] OTHER -> task.v = <<>>

\* line 101 without the isinstance test
IsInvalidTaskNoType(task) == NotTask(task)

\* the test of line 101
IsInvalidTask(task) == NotTask(task) \/ task.type # "str"

\* the test of line 112
IsSearchTask(task_lower) ==
    /\ Contains(KwSearch, task_lower)
    /\ Contains(KwPaper, task_lower) \/ Contains(KwResearch, task_lower)

\* the test of line 126
IsFetchTask(task_lower) ==
    \E word \in {KwDownload, KwSummarize, KwRead} : Contains(word, task_lower)

\* the test of line 145
IsCitationTask(task_lower) ==
    Contains(KwCitation, task_lower) \/ Contains(KwReference, task_lower)

\* the fallback removing "search" only
SearchQuerySearchOnly(task_lower) ==
    LET match == Search(AboutRe, task_lower)
    IN  IF match.start # 0 THEN Strip(Group(task_lower, match, 1))
        ELSE Strip(Remove(task_lower, KwSearch))

\* query of lines 115-120
SearchQuery(task_lower) ==
    LET match == Search(AboutRe, task_lower)
    IN  IF match.start # 0 THEN Strip(Group(task_lower, match, 1))
        ELSE Strip(Remove(Remove(task_lower, KwSearch), KwPapers))

\* the url without the rstrip
TaskUrlUnstripped(task) ==
    LET url_start == Find(KwHttp, task)
        found     == FindFrom(<<" ">>, task, url_start)
        url_end   == IF found = -1 THEN Len(task) ELSE found
    IN  Slice(task, url_start, url_end)

\* url of lines 128-137, for a task that holds "http"
TaskUrl(task) ==
    LET url_start == Find(KwHttp, task)
        found     == FindFrom(<<" ">>, task, url_start)
        url_end   == IF found = -1 THEN Len(task) ELSE found
    IN  RStrip(Slice(task, url_start, url_end), {".", ",", ";"})

\* text_parts[1] without the strip
TaskTextUnstripped(task) == Slice(task, Find(<<":">>, task) + 1, Len(task))

\* text_parts[1].strip() of lines 147-151, for a task that holds ":"
TaskText(task) == Strip(Slice(task, Find(<<":">>, task) + 1, Len(task)))

Failure(error) == [success |-> FALSE, error |-> error]

\* the error built from task_lower instead of task
UnknownTaskErrorLower(task, task_lower) == UnknownTaskPrefix \o task_lower

\* str(e) of the ValueError of line 159
UnknownTaskError(task, task_lower) == UnknownTaskPrefix \o task

\* how a call ends: it returns a value or it raises an exception
Returns(value) == [kind |-> "return", value |-> value]

Raises(error) == [kind |-> "raise", error |-> error]

\* an exception that leaves a public operation
Uncaught(error) == [raised |-> error]

\* how ArxivSearch.search(query) can end (arxiv_search.py lines 140-208)
ArxivSearchOutcomes(query) ==
    IF query = <<>> THEN {Returns([results |-> <<>>])}
    ELSE {Returns([results |-> <<>>]), Returns([results |-> <<"paper">>]),
          Returns([results |-> <<>>, error |-> <<"e">>]), Raises(<<"e">>)}

\* how PDFProcessor.process_pdf(url) can end (pdf_processor.py lines
\* 148-177; an exception other than requests.RequestException leaves it)
PdfProcessorOutcomes(url) ==
    {Returns([success |-> TRUE, url |-> url, text |-> <<"t">>, error |-> PyNone]),
     Returns([success |-> FALSE, url |-> url, text |-> PyNone,
              error |-> DownloadFailedError]),
     Returns([success |-> FALSE, url |-> url, text |-> PyNone,
              error |-> ExtractFailedError]),
     Raises(<<"e">>)}

\* search_papers without its try
SearchPapersUncaught(outcome) ==
    IF outcome.kind = "raise" THEN Uncaught(outcome.error) ELSE outcome.value

\* ResearcherAgent.search_papers, lines 44-48
SearchPapers(outcome) ==
    IF outcome.kind = "raise" THEN [results |-> <<>>, error |-> outcome.error]
    ELSE outcome.value

\* process_paper without its try
ProcessPaperUncaught(url, outcome) ==
    IF outcome.kind = "raise" THEN Uncaught(outcome.error) ELSE outcome.value

\* ResearcherAgent.process_paper, lines 60-68
ProcessPaper(url, outcome) ==
    IF outcome.kind = "raise"
    THEN [success |-> FALSE, url |-> url, error |-> outcome.error]
    ELSE outcome.value

\* ResearcherAgent.extract_citations, lines 80-88, on what process_text did
ExtractCitations(outcome) ==
    IF outcome.kind = "raise"
    THEN [success |-> FALSE, citations |-> <<>>, error |-> outcome.error]
    ELSE outcome.value

\* what search_papers(query) can return
SearchPapersOutcomes(query) ==
    {SearchPapers(outcome) : outcome \in ArxivSearchOutcomes(query)}

\* what process_paper(url) can return
ProcessPaperOutcomes(url) ==
    {ProcessPaper(url, outcome) : outcome \in PdfProcessorOutcomes(url)}

\* the except clauses of run, lines 161-172, around a delegated call
CatchAll(result) ==
    IF "raised" \in DOMAIN result THEN Failure(result.raised) ELSE result

\* spec scenario
TaskExtractSmith ==
    <<"e", "x", "t", "r", "a", "c", "t", " ", "c", "i", "t", "a", "t", "i", "o", "n", "s", ":", " ", "S", "m", "i", "t", "h", " ", "(", "2", "0", "2", "0", ")", " ", "a", "r", "g", "u", "e", "d", ".", ".", ".">>

\* spec scenario
TaskSearchDarkMatter ==
    <<"s", "e", "a", "r", "c", "h", " ", "p", "a", "p", "e", "r", "s", " ", "a", "b", "o", "u", "t", " ", "d", "a", "r", "k", " ", "m", "a", "t", "t", "e", "r">>

SmithArgued ==
    <<"S", "m", "i", "t", "h", " ", "(", "2", "0", "2", "0", ")", " ", "a", "r", "g", "u", "e", "d", ".", ".", ".">>

DarkMatter ==
    <<"d", "a", "r", "k", " ", "m", "a", "t", "t", "e", "r">>

\* a topic that ends at a line break
TaskSearchTwoLines ==
    <<"S", "e", "a", "r", "c", "h", " ", "p", "a", "p", "e", "r", "s", " ", "a", "b", "o", "u", "t", " ", "D", "a", "r", "k", "\n", "m", "a", "t", "t", "e", "r">>

\* a URL followed by more words
TaskReadUrl ==
    <<"P", "l", "e", "a", "s", "e", " ", "r", "e", "a", "d", " ", "h", "t", "t", "p", "s", ":", "/", "/", "a", ".", "b", "/", "c", ".", "p", "d", "f", ".", ";", " ", "n", "o", "w">>

ReadUrl ==
    <<"h", "t", "t", "p", "s", ":", "/", "/", "a", ".", "b", "/", "c", ".", "p", "d", "f">>

MaxTaskPieces == 3

TaskPieces ==
    {<<"s", "e", "a", "r", "c", "h">>,
     <<"p", "a", "p", "e", "r", "s">>,
     <<" ", "a", "b", "o", "u", "t", " ">>,
     <<"r", "e", "a", "d", " ">>,
     <<"h", "t", "t", "p", ":", "/", "/", "a", ".", "b", ".">>,
     <<" ", "c", "i", "t", "a", "t", "i", "o", "n">>,
     <<"R", "e", "f", "e", "r", "e", "n", "c", "e">>,
     <<":">>,
     <<"[", "1", "]">>}

NonStrTasks ==
    {[type |-> "NoneType", v |-> <<>>], [type |-> "int", v |-> <<"0">>],
     [type |-> "int", v |-> <<"5">>], [type |-> "list", v |-> <<>>],
     [type |-> "list", v |-> <<"x">>]}

Tasks ==
    {PyStr(Join(ps)) : ps \in UNION {[1..n -> TaskPieces] : n \in 0..MaxTaskPieces}}
        \cup {PyStr(TaskExtractSmith), PyStr(TaskSearchDarkMatter), PyStr(<<" ">>),
              PyStr(TaskSearchTwoLines), PyStr(TaskReadUrl)}
        \cup NonStrTasks

(***************************************************************************)
(* create_research_agent and ResearcherAgent.__init__                      *)
(***************************************************************************)
\* how the constructors of ArxivSearch, PDFProcessor and CitationExtractor
\* can end, in the order of lines 26-31
ToolOutcomes ==
    {<<arxiv_search, pdf_processor, citation_extractor>> :
        arxiv_search \in {Returns("ArxivSearch"), Raises(<<"a">>)},
        pdf_processor \in {Returns("PDFProcessor"), Raises(<<"p">>)},
        citation_extractor \in {Returns("CitationExtractor"), Raises(<<"c">>)}}

\* a ResearcherAgent object
AgentObject == <<"<ResearcherAgent>">>

\* ResearcherAgent.__init__, lines 26-31: the first constructor that raises
\* ends it
ResearcherAgentInit(tools) ==
    LET failed == {k \in DOMAIN tools : tools[k].kind = "raise"}
    IN  IF failed = {} THEN Returns(AgentObject)
        ELSE tools[CHOOSE k \in failed : \A j \in failed : k <= j]

\* create_research_agent without its try
CreateUncaught(tools) == ResearcherAgentInit(tools)

\* create_research_agent, lines 181-185
Create(tools) ==
    IF ResearcherAgentInit(tools).kind = "raise" THEN Returns(PyNone)
    ELSE ResearcherAgentInit(tools)

CreateResearchAgent ==
    /\ created.pc = "idle"
    /\ \E tools \in ToolOutcomes :
          created' = [pc |-> "done", tools |-> tools, outcome |-> Create(tools)]
    /\ UNCHANGED <<patterns, call, returned, agent, api, searchVars>>

\* there is an agent, and no operation of it has been called
AgentReady ==
    /\ created.pc = "done"
    /\ created.outcome = Returns(AgentObject)
    /\ agent.pc = "idle"
    /\ api.pc = "idle"

(***************************************************************************)
(* ResearcherAgent.run                                                     *)
(***************************************************************************)
\* run ends at once with result, having delegated to op(arg) or to nothing
Finish(task, delegated, result) ==
    /\ agent' = [pc |-> "done", task |-> task, delegated |-> delegated,
                 result |-> result]
    /\ UNCHANGED <<patterns, call, returned, created, api, searchVars>>

\* ResearcherAgent.run(task), lines 101-172, up to the return of a search or
\* fetch, or up to the call of the citation extractor
Run(task) ==
    /\ agent.pc = "idle"
    /\ IF IsInvalidTask(task) THEN Finish(task, <<>>, Failure(InvalidTaskError))
       ELSE LET task_lower == Strip(ToLower(task.v))
            IN  IF IsSearchTask(task_lower)
                THEN LET query == SearchQuery(task_lower)
                     IN  \E outcome \in ArxivSearchOutcomes(query) :
                            Finish(task, <<[op |-> "search_papers", arg |-> query]>>,
                                   CatchAll(SearchPapers(outcome)))
                ELSE IF IsFetchTask(task_lower)
                THEN IF Find(KwHttp, task.v) = -1
                     THEN Finish(task, <<>>, Failure(NoUrlError))
                     ELSE IF TaskUrl(task.v) = <<>>
                     THEN Finish(task, <<>>, Failure(InvalidUrlError))
                     ELSE \E outcome \in PdfProcessorOutcomes(TaskUrl(task.v)) :
                            Finish(task,
                                   <<[op |-> "process_paper", arg |-> TaskUrl(task.v)]>>,
                                   CatchAll(ProcessPaper(TaskUrl(task.v), outcome)))
                ELSE IF IsCitationTask(task_lower)
                THEN IF Find(<<":">>, task.v) = -1
                     THEN Finish(task, <<>>, Failure(NoTextError))
                     ELSE IF TaskText(task.v) = <<>>
                     THEN Finish(task, <<>>, Failure(EmptyCitationTextError))
                     ELSE /\ StartCall("agent", "process_text", TaskText(task.v))
                          /\ agent' = [pc |-> "extracting", task |-> task,
                                       delegated |-> <<[op |-> "extract_citations",
                                                        arg |-> TaskText(task.v)]>>,
                                       result |-> [pending |-> TRUE]]
                          /\ UNCHANGED api
                ELSE Finish(task, <<>>, Failure(UnknownTaskError(task.v, task_lower)))

\* process_text has returned: run returns its result (lines 81 and 156)
Deliver ==
    /\ agent.pc = "extracting"
    /\ returned["agent"] # <<>>
    /\ agent' = [agent EXCEPT
                   !.pc = "done",
                   !.result = CatchAll(ExtractCitations(Returns(
                                 returned["agent"][Len(returned["agent"])].value)))]
    /\ UNCHANGED <<patterns, call, returned, created, api, searchVars>>

\* the agent is given a task
Submit ==
    /\ AgentReady
    /\ \E task \in Tasks : Run(task)

(***************************************************************************)
(* The other public operations of the agent, called directly               *)
(***************************************************************************)
ApiQueries == {<<>>, DarkMatter}

ApiUrls == {<<>>, ReadUrl}

ApiTexts == {<<>>, SmithYear, SeeOneAndTwoThree}

\* a direct call op(arg) has returned result
Answer(op, arg, result) ==
    /\ api' = [pc |-> "done", op |-> op, arg |-> arg, result |-> result]
    /\ UNCHANGED <<patterns, call, returned, agent, created, searchVars>>

\* agent.search_papers(query)
CallSearchPapers ==
    /\ AgentReady
    /\ \E query \in ApiQueries : \E outcome \in ArxivSearchOutcomes(query) :
          Answer("search_papers", query, SearchPapers(outcome))

\* agent.process_paper(url)
CallProcessPaper ==
    /\ AgentReady
    /\ \E url \in ApiUrls : \E outcome \in PdfProcessorOutcomes(url) :
          Answer("process_paper", url, ProcessPaper(url, outcome))

\* agent.extract_citations(text): process_text is entered (line 81)
CallExtractCitations ==
    /\ AgentReady
    /\ \E text \in ApiTexts :
          /\ StartCall("agent", "process_text", text)
          /\ api' = [pc |-> "extracting", op |-> "extract_citations",
                     arg |-> text, result |-> [pending |-> TRUE]]
          /\ UNCHANGED agent

\* process_text has returned: extract_citations returns its result
ReturnExtractCitations ==
    /\ api.pc = "extracting"
    /\ returned["agent"] # <<>>
    /\ Answer(api.op, api.arg,
              ExtractCitations(Returns(returned["agent"][Len(returned["agent"])].value)))

\* the agent is created and one of its public operations is called
NextAgent ==
    \/ CreateResearchAgent
    \/ Submit
    \/ CallSearchPapers
    \/ CallProcessPaper
    \/ CallExtractCitations
    \/ MatchStep("agent")
    \/ NextPattern("agent")
    \/ NextRegion("agent")
    \/ Return("agent")
    \/ Deliver
    \/ ReturnExtractCitations

SpecAgent == Init /\ [][NextAgent]_vars

(***************************************************************************)
(* ArxivSearch._preprocess_query                                           *)
(***************************************************************************)
\* the length up to which a query is used as it is (line 48)
QueryLimit == 200

\* the default of max_terms (line 37)
DefaultMaxTerms == 10

\* self.stop_words: the entries of NLTK's English stop-word list that the
\* queries below can hold
StopWords ==
    {<<"t", "h", "e">>,
     <<"o", "f">>,
     <<"a", "n", "d">>,
     <<"f", "o", "r">>,
     <<"a", "b", "o", "u", "t">>,
     <<"w", "i", "t", "h">>,
     <<"i", "n">>,
     <<"o", "n">>,
     <<"t", "o">>,
     <<"i", "s">>,
     <<"a">>,
     <<"a", "n">>}

\* str.isalnum() on letters, digits and punctuation
IsAlnum(token) ==
    token # <<>> /\ \A k \in DOMAIN token : token[k] \in Lower \cup Upper \cup Digit

\* word_tokenize on one sentence of letters, digits, hyphens, commas and
\* spaces: the words between whitespace are the tokens, and a comma that no
\* digit follows is a token of its own
IsCommaToken(s, i) ==
    s[i] = "," /\ (i = Len(s) \/ s[i + 1] \notin Digit)

InWord(s, i) == s[i] \notin Space /\ ~IsCommaToken(s, i)

TokenStarts(s) ==
    {i \in DOMAIN s : \/ IsCommaToken(s, i)
                      \/ InWord(s, i) /\ (i = 1 \/ ~InWord(s, i - 1))}

TokenEnd(s, i) ==
    IF IsCommaToken(s, i) THEN i
    ELSE CHOOSE e \in i..Len(s) :
            /\ \A j \in i..e : InWord(s, j)
            /\ e = Len(s) \/ ~InWord(s, e + 1)

WordTokenize(s) ==
    LET starts == TokenStarts(s)
    IN  [k \in 1..Cardinality(starts) |->
            LET i == CHOOSE x \in starts :
                        Cardinality({y \in starts : y < x}) = k - 1
            IN  SubSeq(s, i, TokenEnd(s, i))]

\* the test of lines 58-60
KeepToken(token) ==
    /\ token \notin StopWords
    /\ IsAlnum(token)
    /\ Len(token) > 2

\* filtered_tokens of lines 56-61
FilteredTokens(tokens) == SelectSeq(tokens, KeepToken)

\* Counter(filtered_tokens)[term]
TermFreq(filtered_tokens, term) ==
    Cardinality({k \in DOMAIN filtered_tokens : filtered_tokens[k] = term})

\* the place of term among the keys of the Counter: where it was first seen
FirstSeen(filtered_tokens, term) ==
    CHOOSE k \in DOMAIN filtered_tokens :
        /\ filtered_tokens[k] = term
        /\ \A j \in 1..(k - 1) : filtered_tokens[j] # term

\* most_common puts a before b; with ties decided for the term seen last
ComesFirstLastSeen(filtered_tokens, a, b) ==
    \/ TermFreq(filtered_tokens, a) > TermFreq(filtered_tokens, b)
    \/ /\ TermFreq(filtered_tokens, a) = TermFreq(filtered_tokens, b)
       /\ FirstSeen(filtered_tokens, a) > FirstSeen(filtered_tokens, b)

\* most_common puts a before b: the higher count, and among equal counts the
\* term seen first
ComesFirst(filtered_tokens, a, b) ==
    \/ TermFreq(filtered_tokens, a) > TermFreq(filtered_tokens, b)
    \/ /\ TermFreq(filtered_tokens, a) = TermFreq(filtered_tokens, b)
       /\ FirstSeen(filtered_tokens, a) < FirstSeen(filtered_tokens, b)

\* [term for term, _ in Counter(filtered_tokens).most_common(n)], line 67
MostCommon(filtered_tokens, n) ==
    LET terms   == {filtered_tokens[k] : k \in DOMAIN filtered_tokens}
        rank(t) == Cardinality({u \in terms : ComesFirst(filtered_tokens, u, t)})
        size    == IF n < Cardinality(terms) THEN n ELSE Cardinality(terms)
    IN  [k \in 1..size |-> CHOOSE t \in terms : rank(t) = k - 1]

AndOperator == <<" ", "A", "N", "D", " ">>

\* sep.join(items)
RECURSIVE StrJoin(_, _)
StrJoin(sep, items) ==
    IF items = <<>> THEN <<>>
    ELSE IF Len(items) = 1 THEN items[1]
    ELSE items[1] \o sep \o StrJoin(sep, Tail(items))

\* is the query returned as it is, with < for <=
IsShortQueryStrict(query) == Len(query) < QueryLimit

\* the test of line 48
IsShortQuery(query) == Len(query) <= QueryLimit

\* the except clause re-raising
OnFailureRaise(query, error) == Raises(error)

\* the except clause of lines 77-80
OnFailure(query, error) == Returns(Slice(query, 0, QueryLimit))

\* how word_tokenize can end: with the tokens, or with the LookupError of a
\* missing tokenizer model
TokenizerOutcomes == {"tokens", "LookupError"}

\* _preprocess_query(query, max_terms), lines 48-80
PreprocessQuery(query, max_terms, tokenizer) ==
    IF IsShortQuery(query) THEN Returns(query)
    ELSE IF tokenizer = "LookupError" THEN OnFailure(query, <<"e">>)
    ELSE LET tokens          == WordTokenize(ToLower(query))
             filtered_tokens == FilteredTokens(tokens)
             key_terms       == MostCommon(filtered_tokens, max_terms)
         IN  Returns(StrJoin(AndOperator, key_terms))

\* the words of the queries
QueryWords ==
    {<<"q", "u", "a", "n", "t", "u", "m">>,
     <<"D", "a", "r", "k">>,
     <<"t", "h", "e">>,
     <<"a", "b">>,
     <<"d", "a", "r", "k", ",">>}

MaxQueryWords == 3

\* words joined by single spaces
RECURSIVE Sentence(_)
Sentence(ws) ==
    IF ws = <<>> THEN <<>>
    ELSE IF Len(ws) = 1 THEN ws[1]
    ELSE ws[1] \o <<" ">> \o Sentence(Tail(ws))

Sentences ==
    {Sentence(ws) : ws \in UNION {[1..n -> QueryWords] : n \in 0..MaxQueryWords}}

\* s followed by spaces up to the length n
PadTo(s, n) == [k \in 1..n |-> IF k <= Len(s) THEN s[k] ELSE " "]

\* spec scenario: 500 characters, "quantum" 8 times, other words once
QuantumQuery ==
    PadTo(<<"q", "u", "a", "n", "t", "u", "m", " ", "d", "a", "r", "k", " ", "m", "a", "t", "t", "e", "r", " ", "q", "u", "a", "n", "t", "u", "m", " ", "p", "h", "y", "s", "i", "c", "s", " ", "q", "u", "a", "n", "t", "u", "m", " ", "e", "n", "e", "r", "g", "y", " ", "q", "u", "a", "n", "t", "u", "m", " ", "q", "u", "a", "n", "t", "u", "m", " ", "t", "h", "e", " ", "q", "u", "a", "n", "t", "u", "m", " ", "f", "i", "e", "l", "d", " ", "q", "u", "a", "n", "t", "u", "m", " ", "t", "h", "e", "o", "r", "y", " ", "q", "u", "a", "n", "t", "u", "m">>,
          500)

\* sentences as they are, and filled up to the limit and to one more
Queries ==
    Sentences
        \cup {PadTo(s, QueryLimit) : s \in Sentences}
        \cup {PadTo(s, QueryLimit + 1) : s \in Sentences}
        \cup {QuantumQuery}

MaxTermsBound == 2

MaxTermsChoices == 1..MaxTermsBound \cup {DefaultMaxTerms}

\* a call of _preprocess_query
Preprocess ==
    /\ normalizer.pc = "idle"
    /\ \E query \in Queries, max_terms \in MaxTermsChoices,
          tokenizer \in TokenizerOutcomes :
          normalizer' = [pc |-> "done", query |-> query, max_terms |-> max_terms,
                         tokenizer |-> tokenizer,
                         outcome |-> PreprocessQuery(query, max_terms, tokenizer)]
    /\ UNCHANGED <<patterns, call, returned, agentVars,
                   now, last_request_time, transfer, requests>>

NextNormalizer == Preprocess

SpecNormalizer == Init /\ [][NextNormalizer]_vars

(***************************************************************************)
(* The network side of the tools: ArxivSearch.search with its rate limit   *)
(* (arxiv_search.py lines 82-88 and 123-208) and PDFProcessor.download_pdf *)
(* with its retries (pdf_processor.py lines 52-99).  Time is counted in    *)
(* whole seconds; `now` is time.time(), `requests` the external calls made *)
(* so far, `transfer` the invocation in progress.                          *)
(***************************************************************************)
\* ArxivSearch.__init__, rate_limit_delay: float = 3.0
RateLimitDelay == 3

\* PDFProcessor.__init__, max_retries: int = 3
MaxRetries == 3

\* PDFProcessor.__init__, retry_delay: float = 1.0
RetryDelay == 1

\* time passes on its own up to this second
MaxTime == 6

\* no invocation starts once this many external calls were made
MaxRequests == 3

\* time.sleep suspends for at least the time asked, and may take longer
MaxOversleep == 1

Oversleep == 0..MaxOversleep

\* _check_rate_limit without its sleep
WakeTimeNoSleep(time, last) == time

\* _check_rate_limit, lines 84-87: the time at which the sleep was asked to
\* end (the time of the call when there is no sleep)
WakeTime(time, last) ==
    IF Truthy(last) /\ time - last < RateLimitDelay
    THEN last + RateLimitDelay
    ELSE time

\* the queries given to ArxivSearch.search
SearchQueries == {<<>>, DarkMatter, QuantumQuery}

\* the urls given to PDFProcessor.download_pdf
DownloadUrls == {<<>>, ReadUrl}

\* _validate_pdf_url, lines 40-47: urlparse finds a scheme and a netloc
ValidatePdfUrl(url) ==
    \E i \in 2..Len(url) :
        /\ Slice(url, i - 1, i + 2) = <<":", "/", "/">>
        /\ Len(url) > i + 2
        /\ url[i + 3] # "/"

\* how one requests.get of download_pdf can end (lines 69-90)
ResponseKinds == {"content", "not_pdf", "empty", "RequestException"}

PdfContent == <<"%", "P", "D", "F">>

Free == transfer.pc \in {"idle", "done"}

MayStart == Free /\ now < MaxTime /\ Len(requests) < MaxRequests

\* time.time() advances
Tick ==
    /\ now < MaxTime
    /\ now' = now + 1
    /\ UNCHANGED <<patterns, call, returned, agentVars, normalizer,
                   last_request_time, transfer, requests>>

\* ArxivSearch.search, lines 140-147: the empty query returns at once; any
\* other waits in _check_rate_limit and stamps last_request_time
StartSearch ==
    /\ MayStart
    /\ \E query \in SearchQueries :
          IF query = <<>>
          THEN /\ transfer' = [pc |-> "done", op |-> "search",
                               outcome |-> Returns([results |-> <<>>])]
               /\ UNCHANGED <<now, last_request_time>>
          ELSE /\ \E late \in Oversleep :
                     now' = IF WakeTime(now, last_request_time) > now
                            THEN WakeTime(now, last_request_time) + late
                            ELSE now
               /\ last_request_time' = now'
               /\ transfer' = [pc |-> "stamped", query |-> query]
    /\ UNCHANGED <<patterns, call, returned, agentVars, normalizer, requests>>

\* ArxivSearch.search, lines 150-166: a long query is normalized, and the
\* request goes to the arXiv API
IssueSearch ==
    /\ transfer.pc = "stamped"
    /\ \E tokenizer \in TokenizerOutcomes :
          transfer' = [pc |-> "searching",
                       query |-> IF Len(transfer.query) > QueryLimit
                                 THEN PreprocessQuery(transfer.query,
                                          DefaultMaxTerms, tokenizer).value
                                 ELSE transfer.query]
    /\ requests' = Append(requests, [component |-> "search", at |-> now,
                                     stamp |-> last_request_time])
    /\ UNCHANGED <<patterns, call, returned, agentVars, normalizer, now,
                   last_request_time>>

\* ArxivSearch.search, lines 166-208: the API answers and search ends
SearchResponds ==
    /\ transfer.pc = "searching"
    /\ \E outcome \in ArxivSearchOutcomes(transfer.query) :
          transfer' = [pc |-> "done", op |-> "search", outcome |-> outcome]
    /\ UNCHANGED <<patterns, call, returned, agentVars, normalizer, now,
                   last_request_time, requests>>

\* PDFProcessor.download_pdf, lines 62-67: an invalid url returns None,
\* a valid one enters the loop of attempts
DownloadPdf ==
    /\ MayStart
    /\ \E url \in DownloadUrls :
          transfer' = IF ValidatePdfUrl(url)
                      THEN [pc |-> "attempt", url |-> url, attempt |-> 0,
                            response |-> "none"]
                      ELSE [pc |-> "done", op |-> "download",
                            outcome |-> Returns(PyNone)]
    /\ UNCHANGED <<patterns, call, returned, agentVars, normalizer, now,
                   last_request_time, requests>>

\* PDFProcessor.download_pdf, lines 69-73: requests.get
IssueDownload ==
    /\ transfer.pc = "attempt"
    /\ transfer' = [transfer EXCEPT !.pc = "downloading"]
    /\ requests' = Append(requests, [component |-> "download", at |-> now,
                                     attempt |-> transfer.attempt])
    /\ UNCHANGED <<patterns, call, returned, agentVars, normalizer, now,
                   last_request_time>>

\* download_pdf with a retry after every response that is not the content
RetriesOnAnyFailure(response, attempt) ==
    response # "content" /\ attempt < MaxRetries - 1

\* PDFProcessor.download_pdf, lines 90-94: a RequestException is followed
\* by another attempt while attempt < max_retries - 1
Retries(response, attempt) ==
    response = "RequestException" /\ attempt < MaxRetries - 1

\* PDFProcessor.download_pdf, lines 74-97: the content comes back, or None
\* for a wrong content type or empty content; a RequestException sleeps
\* retry_delay and tries again while attempts remain.  The response of the
\* attempt (logged at lines 79, 84, 87, 91) is kept with the invocation.
DownloadResponds ==
    /\ transfer.pc = "downloading"
    /\ \E response \in ResponseKinds :
          IF Retries(response, transfer.attempt)
          THEN /\ \E late \in Oversleep : now' = now + RetryDelay + late
               /\ transfer' = [transfer EXCEPT !.pc = "attempt",
                                               !.attempt = @ + 1,
                                               !.response = response]
          ELSE /\ transfer' = [pc |-> "done", op |-> "download",
                               attempt |-> transfer.attempt,
                               response |-> response,
                               outcome |-> IF response = "content"
                                           THEN Returns(PdfContent)
                                           ELSE Returns(PyNone)]
               /\ UNCHANGED now
    /\ UNCHANGED <<patterns, call, returned, agentVars, normalizer,
                   last_request_time, requests>>

NextNetwork ==
    \/ Tick
    \/ StartSearch
    \/ IssueSearch
    \/ SearchResponds
    \/ DownloadPdf
    \/ IssueDownload
    \/ DownloadResponds

SpecNetwork == Init /\ [][NextNetwork]_vars

(***************************************************************************)
(* Properties of the citation extractor (checked under SpecExtract)        *)
(***************************************************************************)
\* the list of citations a returned result carries
Output(ret) == IF ret.entry = "process_text" THEN ret.value.citations ELSE ret.value

\* every result returned so far, by any caller
AllReturned == UNION {{returned[c][k] : k \in DOMAIN returned[c]} : c \in Callers}

IsNumerical(c) == "number" \in DOMAIN c

\* the identity part of a record's dedup key: citation_text and number of a
\* numerical record, author(s) and year of a named one
Identity(c) ==
    IF IsNumerical(c) THEN <<c.citation_text, c.number>>
    ELSE IF "authors" \in DOMAIN c THEN c.authors \o <<c.year>>
    ELSE <<c.author, c.year>>

SameDedupKey(c, d) ==
    /\ c.citation_type = d.citation_type
    /\ IsNumerical(c) = IsNumerical(d)
    /\ Identity(c) = Identity(d)

NoRepeatedKey(citations) ==
    \A i, j \in DOMAIN citations : i # j => ~SameDedupKey(citations[i], citations[j])

IsPrefix(s, t) == Len(s) <= Len(t) /\ SubSeq(t, 1, Len(s)) = s

\* C1: neither the list a call is building nor any list extract_citations
\* has returned holds two records with the same dedup key.
C1_NoRepeatedDedupKey ==
    /\ \A c \in Callers : NoRepeatedKey(call[c].citations)
    /\ \A ret \in AllReturned : NoRepeatedKey(Output(ret))

\* "[1][1]" was extracted: its second "[1]" repeats the key of the first
C1_Witness ==
    \E ret \in AllReturned :
        /\ ret.text = <<"[", "1", "]", "[", "1", "]">>
        /\ Len(Output(ret)) = 1

\* the span [from, to) of the references block in text, <<0, 0>> without one
ReferencesSpan(text) == Search(ReferencesRe, text).g[1]

\* C2 as stated: a match of the full-text scan that lies inside the
\* references block adds no record (which would be tagged "inline").
C2_NoInlineFromReferencesBlock ==
    [][\A c \in Callers :
          LET k == call[c]
              m == NextHit(k)
              span == ReferencesSpan(k.text)
          IN  (/\ k.pc = "scan"
               /\ k.ri = 1
               /\ m.start # 0
               /\ span # <<0, 0>>
               /\ span[1] <= m.start
               /\ m.end <= span[2])
              => call'[c].citations = k.citations]_vars

\* the matches of a compiled pattern in s from pos on, as finditer yields them
RECURSIVE MatchesFrom(_, _, _)
MatchesFrom(r, s, pos) ==
    LET m == Scan(r, s, pos)
    IN  IF m.start = 0 THEN <<>> ELSE <<m>> \o MatchesFrom(r, s, NextPos(m))

\* the result each caller that is between two calls got last: every result
\* is one of these in the state its call returns in
LastReturned ==
    {returned[c][Len(returned[c])] :
        c \in {d \in Callers : call[d].pc = "idle" /\ returned[d] # <<>>}}

\* C2 as amended: in a returned list every record is tagged "inline" or
\* "reference"; the text of a "reference" record lies in the references
\* block and the text of an "inline" record in the full text; and each
\* number of each match a pattern has in the references block has its
\* "reference" record.
C2_RegionTagging ==
    \A ret \in LastReturned :
        LET references_text == ReferencesText(ret.text)
            out == Output(ret)
        IN  /\ \A i \in DOMAIN out :
                 /\ out[i].citation_type \in {Inline, Reference}
                 /\ (IsNumerical(out[i]) /\ out[i].citation_type = Reference)
                      => Contains(out[i].citation_text, references_text)
                 /\ (IsNumerical(out[i]) /\ out[i].citation_type = Inline)
                      => Contains(out[i].citation_text, ret.text)
            /\ \A p \in DOMAIN PatternLibrary :
                 LET ms == MatchesFrom(PatternTable[p].re, references_text, 1)
                 IN  \A j \in DOMAIN ms :
                        LET group0 == Group0(references_text, ms[j])
                            numbers == FindAll(NumberRe, group0)
                        IN  \A n \in DOMAIN numbers :
                               \E i \in DOMAIN out :
                                  /\ IsNumerical(out[i])
                                  /\ out[i].citation_type = Reference
                                  /\ out[i].citation_text = group0
                                  /\ out[i].number = numbers[n]

\* "References\n[1]" was extracted: the "[1]" of its references block has an
\* "inline" record and a "reference" record
C2_Witness ==
    \E ret \in AllReturned :
        /\ ret.text = <<"R", "e", "f", "e", "r", "e", "n", "c", "e", "s", "\n", "[", "1", "]">>
        /\ \E i, j \in DOMAIN Output(ret) :
              /\ Output(ret)[i].citation_text = <<"[", "1", "]">>
              /\ Output(ret)[i].citation_type = Inline
              /\ Output(ret)[j].citation_text = <<"[", "1", "]">>
              /\ Output(ret)[j].citation_type = Reference

\* C3 as stated: "See [1] and [2,3] for details." yields exactly three
\* records, numerical and inline, with the numbers 1, 2 and 3.
C3_ThreeNumericalCitations ==
    \A ret \in AllReturned :
        ret.text = SeeOneAndTwoThree =>
            /\ Len(Output(ret)) = 3
            /\ \A i \in DOMAIN Output(ret) :
                  /\ IsNumerical(Output(ret)[i])
                  /\ Output(ret)[i].citation_type = Inline
            /\ {Output(ret)[i].number : i \in DOMAIN Output(ret)}
                  = {<<"1">>, <<"2">>, <<"3">>}

\* C4 as stated: "Smith (2020)" yields a named record with author "Smith"
\* and year "2020".
C4_NamedCitationForSmith ==
    \A ret \in AllReturned :
        ret.text = SmithYear =>
            \E i \in DOMAIN Output(ret) :
                /\ "author" \in DOMAIN Output(ret)[i]
                /\ Output(ret)[i].author = <<"S", "m", "i", "t", "h">>
                /\ Output(ret)[i].year = <<"2", "0", "2", "0">>

\* C5: on the empty text process_text returns the failure result with
\* error "Empty text provided" and extract_citations returns the empty list,
\* and no call ever scans a pattern over an empty text.
C5_EmptyTextFailsAsValue ==
    /\ \A ret \in AllReturned :
          ret.text = <<>> =>
             IF ret.entry = "process_text"
             THEN ret.value = [success |-> FALSE, citations |-> <<>>,
                               error |-> EmptyTextError]
             ELSE ret.value = <<>>
    /\ \A c \in Callers : call[c].pc = "scan" => call[c].text # <<>>

\* process_text("") has returned
C5_Witness ==
    \E ret \in AllReturned : ret.text = <<>> /\ ret.entry = "process_text"

\* C6: the calls of one caller on the same text return equal values, and
\* the extractor's patterns are still the ones it was built with.
C6_SameTextSameResult ==
    /\ patterns = PatternLibrary
    /\ \A c \in Callers :
          \A i, j \in DOMAIN returned[c] :
             (returned[c][i].text = returned[c][j].text
                /\ returned[c][i].entry = returned[c][j].entry)
             => returned[c][i].value = returned[c][j].value

\* extract_citations has returned twice on a text that yields records
C6_Witness ==
    /\ Len(returned["user"]) >= 2
    /\ returned["user"][1].text = returned["user"][2].text
    /\ returned["user"][1].entry = "extract_citations"
    /\ Len(returned["user"][2].value) >= 2

\* every "inline" record comes before every "reference" record
InlineBeforeReference(citations) ==
    \A i, j \in DOMAIN citations :
        (citations[i].citation_type = Reference /\ citations[j].citation_type = Inline)
        => j < i

\* is <<a1, a2, a3>> at or before <<b1, b2, b3>> in lexicographic order
LexLeq(a, b) ==
    \/ a[1] < b[1]
    \/ a[1] = b[1] /\ a[2] < b[2]
    \/ a[1] = b[1] /\ a[2] = b[2] /\ a[3] <= b[3]

\* C7: the list of a running call only grows by appending; the loops move
\* forward through regions, then patterns, then positions of the text; the
\* records a step appends carry the tag of the region being scanned and the
\* text of a match at or after the position the scan had reached; the list
\* returned is the list built; and every "inline" record precedes every
\* "reference" record.
C7_DiscoveryOrder ==
    /\ [](\A c \in Callers : InlineBeforeReference(call[c].citations))
    /\ [][\A c \in Callers :
            LET k == call[c]
                n == call'[c]
                current_text == IF k.ri = 1 THEN k.text ELSE k.references_text
            IN  /\ (k.pc = "scan" /\ n.pc = "scan") =>
                      /\ IsPrefix(k.citations, n.citations)
                      /\ LexLeq(<<k.ri, k.pi, k.pos>>, <<n.ri, n.pi, n.pos>>)
                      /\ \A i \in (Len(k.citations) + 1)..Len(n.citations) :
                            /\ n.citations[i].citation_type
                                  = (IF k.ri = 1 THEN Inline ELSE Reference)
                            /\ \E from \in k.pos..(n.pos - 1) :
                                  n.citations[i].citation_text
                                     = SubSeq(current_text, from, n.pos - 1)
                /\ (k.pc = "scan" /\ n.pc = "idle") =>
                      Output(returned'[c][Len(returned'[c])]) = k.citations]_vars

\* a list with an "inline" and a "reference" record was returned for a text
\* in which a repeated key was dropped ("[1]" matches patterns 1, 2 and 3)
C7_Witness ==
    \E ret \in AllReturned :
        /\ ret.text = <<"R", "e", "f", "e", "r", "e", "n", "c", "e", "s", "\n", "[", "1", "]">>
        /\ \E i, j \in DOMAIN Output(ret) :
              /\ i < j
              /\ Output(ret)[i].citation_type = Inline
              /\ Output(ret)[j].citation_type = Reference

(***************************************************************************)
(* Properties of the task dispatcher (checked under SpecAgent)             *)
(***************************************************************************)
\* a result with success = False
IsFailure(result) == "success" \in DOMAIN result /\ result.success = FALSE

\* run has called neither search_papers, process_paper nor the extractor
NothingDelegated ==
    /\ agent.delegated = <<>>
    /\ call["agent"].pc = "idle"
    /\ returned["agent"] = <<>>

\* the keyword rules, read on the lowercased instruction
MatchesSearchRule(task) ==
    /\ Contains(KwSearch, ToLower(task))
    /\ Contains(KwPaper, ToLower(task)) \/ Contains(KwResearch, ToLower(task))

MatchesFetchRule(task) ==
    \/ Contains(KwDownload, ToLower(task))
    \/ Contains(KwSummarize, ToLower(task))
    \/ Contains(KwRead, ToLower(task))

MatchesCitationRule(task) ==
    \/ Contains(KwCitation, ToLower(task))
    \/ Contains(KwReference, ToLower(task))

HasColon(task) == \E p \in DOMAIN task : task[p] = ":"

\* the text after the first colon of a task that has one, trimmed
AfterFirstColon(task) ==
    LET p == CHOOSE q \in DOMAIN task :
                task[q] = ":" /\ \A r \in 1..(q - 1) : task[r] # ":"
    IN  Strip(SubSeq(task, p + 1, Len(task)))

\* C8: a run on an empty or non-string task ends with the failure result
\* "Invalid task: must be a non-empty string" and has delegated to nothing.
C8_InvalidTaskRejected ==
    (agent.pc # "idle" /\ (agent.task.type # "str" \/ agent.task.v = <<>>))
    => /\ agent.pc = "done"
       /\ agent.result = [success |-> FALSE, error |-> InvalidTaskError]
       /\ NothingDelegated

\* run(5) has ended with the failure result
C8_Witness ==
    /\ agent.pc = "done"
    /\ agent.task = [type |-> "int", v |-> <<"5">>]
    /\ IsFailure(agent.result)

\* C9: a run on a non-empty string that matches none of the three rules ends
\* with success = False and the error "Unknown task type: " followed by the
\* instruction as given, and has delegated to nothing.
C9_UnknownTaskEchoed ==
    (/\ agent.pc # "idle"
     /\ agent.task.type = "str"
     /\ agent.task.v # <<>>
     /\ ~MatchesSearchRule(agent.task.v)
     /\ ~MatchesFetchRule(agent.task.v)
     /\ ~MatchesCitationRule(agent.task.v))
    => /\ agent.pc = "done"
       /\ agent.result = [success |-> FALSE,
                          error |-> UnknownTaskPrefix \o agent.task.v]
       /\ NothingDelegated

\* run(" about ") has ended with the error that echoes " about "
C9_Witness ==
    /\ agent.pc = "done"
    /\ agent.task = PyStr(<<" ", "a", "b", "o", "u", "t", " ">>)
    /\ IsFailure(agent.result)
    /\ agent.result.error = UnknownTaskPrefix \o <<" ", "a", "b", "o", "u", "t", " ">>

\* what C10 asks of a finished run on task
CitationTaskHandled(task) ==
    IF ~HasColon(task) \/ AfterFirstColon(task) = <<>>
    THEN IsFailure(agent.result) /\ NothingDelegated
    ELSE /\ agent.delegated
               = <<[op |-> "extract_citations", arg |-> AfterFirstColon(task)]>>
         /\ Len(returned["agent"]) = 1
         /\ returned["agent"][1].text = AfterFirstColon(task)
         /\ agent.result = returned["agent"][1].value

\* C10 as stated: every finished run on an instruction that contains
\* "citation" or "reference" has passed the trimmed text after the first
\* colon to the extractor, or has failed when there is no such text.
C10_EveryCitationTaskExtracts ==
    (/\ agent.pc = "done"
     /\ agent.task.type = "str"
     /\ MatchesCitationRule(agent.task.v))
    => CitationTaskHandled(agent.task.v)

\* C10 as amended: the same, for the instructions that match neither the
\* search rule nor the fetch rule.
C10_CitationTaskExtracts ==
    (/\ agent.pc = "done"
     /\ agent.task.type = "str"
     /\ MatchesCitationRule(agent.task.v)
     /\ ~MatchesSearchRule(agent.task.v)
     /\ ~MatchesFetchRule(agent.task.v))
    => CitationTaskHandled(agent.task.v)

\* run("extract citations: Smith (2020) argued...") has ended, having passed
\* "Smith (2020) argued..." to the extractor
C10_Witness ==
    /\ agent.pc = "done"
    /\ agent.task = PyStr(TaskExtractSmith)
    /\ agent.delegated = <<[op |-> "extract_citations", arg |-> SmithArgued]>>
    /\ returned["agent"][1].text = SmithArgued

\* the topic of a search instruction s: the text after the first "about "
\* up to the end of its line, when there is such text, and otherwise s
\* without "search" and "papers"; trimmed
TopicOf(s) ==
    LET from(p) == p + Len(KwAbout)
        starts  == {p \in DOMAIN s : /\ OccursAt(KwAbout, s, p)
                                     /\ from(p) <= Len(s)
                                     /\ s[from(p)] # "\n"}
    IN  IF starts = {} THEN Strip(Remove(Remove(s, KwSearch), KwPapers))
        ELSE LET p    == CHOOSE q \in starts : \A r \in starts : q <= r
                 stop == CHOOSE k \in from(p)..(Len(s) + 1) :
                            /\ k = Len(s) + 1 \/ s[k] = "\n"
                            /\ \A j \in from(p)..(k - 1) : s[j] # "\n"
             IN  Strip(SubSeq(s, from(p), stop - 1))

\* run has called search_papers(topic) and returned what it returned
SearchDelegated(topic) ==
    /\ agent.delegated = <<[op |-> "search_papers", arg |-> topic]>>
    /\ "results" \in DOMAIN agent.result
    /\ call["agent"].pc = "idle"
    /\ returned["agent"] = <<>>

\* C11 as stated: a finished run on a search instruction has delegated to
\* Search with the topic of the instruction as it was given.
C11_TopicOfInstructionAsGiven ==
    (/\ agent.pc = "done"
     /\ agent.task.type = "str"
     /\ MatchesSearchRule(agent.task.v))
    => SearchDelegated(TopicOf(Strip(agent.task.v)))

\* C11 as amended: a finished run on a search instruction has delegated to
\* Search with the topic of the lowercased, trimmed instruction: the trimmed
\* text after the first "about " up to the end of its line when there is
\* such text, and otherwise the instruction without "search" and "papers".
C11_TopicOfLowercasedInstruction ==
    (/\ agent.pc # "idle"
     /\ agent.task.type = "str"
     /\ MatchesSearchRule(agent.task.v))
    => /\ agent.pc = "done"
       /\ SearchDelegated(TopicOf(Strip(ToLower(agent.task.v))))

\* run("search papers about dark matter") has searched for "dark matter"
C11_Witness ==
    /\ agent.pc = "done"
    /\ agent.task = PyStr(TaskSearchDarkMatter)
    /\ agent.delegated = <<[op |-> "search_papers", arg |-> DarkMatter]>>

\* the first "http" of task up to the next space, without the '.', ','
\* and ';' at its end
UrlOf(task) ==
    LET starts == {p \in DOMAIN task : OccursAt(KwHttp, task, p)}
        p      == CHOOSE q \in starts : \A r \in starts : q <= r
        stop   == CHOOSE k \in p..(Len(task) + 1) :
                     /\ k = Len(task) + 1 \/ task[k] = " "
                     /\ \A j \in p..(k - 1) : task[j] # " "
        token  == SubSeq(task, p, stop - 1)
        n      == CHOOSE k \in 0..Len(token) :
                     /\ k = 0 \/ token[k] \notin {".", ",", ";"}
                     /\ \A j \in (k + 1)..Len(token) : token[j] \in {".", ",", ";"}
    IN  SubSeq(token, 1, n)

\* what C12 asks of a finished run on task
FetchTaskHandled(task) ==
    IF ~Contains(KwHttp, task)
    THEN IsFailure(agent.result) /\ NothingDelegated
    ELSE /\ agent.delegated = <<[op |-> "process_paper", arg |-> UrlOf(task)]>>
         /\ OccursAt(KwHttp, agent.delegated[1].arg, 1)
         /\ ~Contains(<<" ">>, agent.delegated[1].arg)
         /\ agent.delegated[1].arg[Len(agent.delegated[1].arg)] \notin {".", ",", ";"}
         /\ "url" \in DOMAIN agent.result
         /\ agent.result.url = UrlOf(task)

\* C12 as stated: every finished run on an instruction that contains
\* "download", "summarize" or "read" has fetched the first http token
\* without its trailing punctuation, or has failed without a fetch when
\* there is no such token.
C12_EveryFetchTaskFetches ==
    (/\ agent.pc = "done"
     /\ agent.task.type = "str"
     /\ MatchesFetchRule(agent.task.v))
    => FetchTaskHandled(agent.task.v)

\* C12 as amended: the same, for the instructions that do not match the
\* search rule.
C12_FetchTaskFetches ==
    (/\ agent.pc # "idle"
     /\ agent.task.type = "str"
     /\ MatchesFetchRule(agent.task.v)
     /\ ~MatchesSearchRule(agent.task.v))
    => /\ agent.pc = "done"
       /\ FetchTaskHandled(agent.task.v)

\* run("Please read https://a.b/c.pdf.; now") has fetched https://a.b/c.pdf
C12_Witness ==
    /\ agent.pc = "done"
    /\ agent.task = PyStr(TaskReadUrl)
    /\ agent.delegated = <<[op |-> "process_paper", arg |-> ReadUrl]>>

(***************************************************************************)
(* Properties of the agent's public operations (checked under SpecAgent)   *)
(***************************************************************************)
\* result was returned: no exception left the operation
WasReturned(result) ==
    "raised" \notin DOMAIN result /\ "pending" \notin DOMAIN result

\* a result with a success flag, and an error string when it is False
HasSuccessFlag(result) ==
    /\ "success" \in DOMAIN result
    /\ result.success \in BOOLEAN
    /\ ~result.success => "error" \in DOMAIN result /\ result.error # PyNone

\* a search result: results and an optional error, no success flag
IsSearchResult(result) ==
    /\ "results" \in DOMAIN result
    /\ "success" \notin DOMAIN result

\* has the finished run delegated to search_papers
RunSearched ==
    agent.delegated # <<>> /\ agent.delegated[1].op = "search_papers"

\* C13 as stated: every finished public operation of the agent has returned
\* a result that carries a success flag, and none has raised.
C13_EveryResultHasSuccessFlag ==
    /\ agent.pc = "done"
          => WasReturned(agent.result) /\ HasSuccessFlag(agent.result)
    /\ api.pc = "done"
          => WasReturned(api.result) /\ HasSuccessFlag(api.result)

\* C13 as amended: every finished public operation of the agent has
\* returned and none has raised; process_paper, extract_citations and run
\* return a result with a success flag (and an error string when it is
\* False), except that search_papers, and run when it delegates to it,
\* return results with an optional error and no success flag.
C13_EveryOperationReturns ==
    /\ agent.pc = "done"
          => /\ WasReturned(agent.result)
             /\ IF RunSearched THEN IsSearchResult(agent.result)
                ELSE HasSuccessFlag(agent.result)
    /\ api.pc = "done"
          => /\ WasReturned(api.result)
             /\ IF api.op = "search_papers" THEN IsSearchResult(api.result)
                ELSE HasSuccessFlag(api.result)

\* process_paper has returned a failure for a process_pdf that raised
C13_Witness ==
    /\ api.pc = "done"
    /\ api.op = "process_paper"
    /\ api.result = [success |-> FALSE, url |-> ReadUrl, error |-> <<"e">>]

\* C19: create_research_agent never raises; it returns a ResearcherAgent
\* when the three tools are constructed and None when one of them fails.
C19_CreateReturnsAgentOrNone ==
    created.pc = "done"
    => /\ created.outcome.kind = "return"
       /\ (\A k \in DOMAIN created.tools : created.tools[k].kind = "return")
             => created.outcome.value = AgentObject
       /\ (\E k \in DOMAIN created.tools : created.tools[k].kind = "raise")
             => created.outcome.value = PyNone

\* create_research_agent has returned None because PDFProcessor() raised
C19_Witness ==
    /\ created.pc = "done"
    /\ created.tools[1].kind = "return"
    /\ created.tools[2].kind = "raise"
    /\ created.outcome = Returns(PyNone)

(***************************************************************************)
(* Concurrent calls of the extractor (checked under SpecConcurrent)        *)
(***************************************************************************)
\* C14: whatever the interleaving of the calls of two threads on one
\* CitationExtractor, every call returns what the thread's first call, which
\* ran alone, returned on the same text; the pattern list is never written.
C14_ConcurrentCallsAsAlone ==
    /\ patterns = PatternLibrary
    /\ \A c \in Threads : \A k \in DOMAIN returned[c] :
          /\ returned[c][k].text = returned[c][1].text
          /\ returned[c][k].value = returned[c][1].value

\* the two threads are both inside a call, on different texts, each with
\* citations found so far, and one of them at a later pattern than the other
C14_Witness ==
    /\ call["user"].pc = "scan"
    /\ call["other"].pc = "scan"
    /\ call["user"].text # call["other"].text
    /\ call["user"].citations # <<>>
    /\ call["other"].citations # <<>>
    /\ call["user"].citations # call["other"].citations
    /\ call["user"].pi < call["other"].pi

(***************************************************************************)
(* Properties of the query normalizer (checked under SpecNormalizer)       *)
(***************************************************************************)
\* the words of s: its runs of characters other than the space
WordsOf(s) ==
    LET starts == {i \in DOMAIN s : s[i] # " " /\ (i = 1 \/ s[i - 1] = " ")}
        end(i) == CHOOSE e \in i..Len(s) :
                     /\ \A j \in i..e : s[j] # " "
                     /\ e = Len(s) \/ s[e + 1] = " "
    IN  [k \in 1..Cardinality(starts) |->
            LET i == CHOOSE x \in starts :
                        Cardinality({y \in starts : y < x}) = k - 1
            IN  SubSeq(s, i, end(i))]

\* the terms of "t1 AND t2 AND ...": every other word
TermsOf(s) == [k \in 1..((Len(WordsOf(s)) + 1) \div 2) |-> WordsOf(s)[2 * k - 1]]

\* the tokens of the normalized query that survive the filter
Surviving == FilteredTokens(WordTokenize(ToLower(normalizer.query)))

\* term a ranks before term b: more frequent, or as frequent and seen first
RanksBefore(a, b) ==
    \/ TermFreq(Surviving, a) > TermFreq(Surviving, b)
    \/ /\ TermFreq(Surviving, a) = TermFreq(Surviving, b)
       /\ FirstSeen(Surviving, a) < FirstSeen(Surviving, b)

\* C15: for a query of more than 200 characters (and max_terms >= 1) the
\* normalizer returns the surviving tokens (lower case, alphanumeric, longer
\* than 2, no stop-word) that rank highest by frequency and then by first
\* occurrence, in that order, joined by " AND ": at most max_terms of them,
\* the first of which is a most frequent surviving token.
C15_TopTermsJoinedByAnd ==
    (/\ normalizer.pc = "done"
     /\ Len(normalizer.query) > QueryLimit
     /\ normalizer.tokenizer = "tokens")
    => LET terms == TermsOf(normalizer.outcome.value)
           all   == {Surviving[k] : k \in DOMAIN Surviving}
           used  == {terms[k] : k \in DOMAIN terms}
       IN  /\ normalizer.outcome.kind = "return"
           /\ normalizer.outcome.value = StrJoin(<<" ", "A", "N", "D", " ">>, terms)
           /\ Len(terms) <= normalizer.max_terms
           /\ Len(terms) = IF normalizer.max_terms < Cardinality(all)
                           THEN normalizer.max_terms ELSE Cardinality(all)
           /\ used \subseteq all
           /\ \A t \in used :
                 /\ \A k \in DOMAIN t : t[k] \in Lower \cup Digit
                 /\ Len(t) > 2
                 /\ t \notin StopWords
           /\ \A i, j \in DOMAIN terms : i < j => RanksBefore(terms[i], terms[j])
           /\ \A t \in used, u \in all \ used : RanksBefore(t, u)
           /\ all # {} => /\ terms # <<>>
                          /\ \A u \in all :
                                TermFreq(Surviving, u) <= TermFreq(Surviving, terms[1])

\* the 500-character query with "quantum" 8 times, max_terms = 2, has given
\* "quantum AND dark"
C15_Witness ==
    /\ normalizer.pc = "done"
    /\ normalizer.query = QuantumQuery
    /\ normalizer.max_terms = 2
    /\ normalizer.outcome = Returns(<<"q", "u", "a", "n", "t", "u", "m", " ", "A", "N", "D", " ", "d", "a", "r", "k">>)

\* C16: a query of at most 200 characters is returned unchanged, whatever
\* max_terms is.
C16_ShortQueryUnchanged ==
    (normalizer.pc = "done" /\ Len(normalizer.query) <= QueryLimit)
    => normalizer.outcome = Returns(normalizer.query)

\* a query of exactly 200 characters that holds tokens has been returned
\* as it is
C16_Witness ==
    /\ normalizer.pc = "done"
    /\ Len(normalizer.query) = QueryLimit
    /\ Surviving # <<>>
    /\ normalizer.outcome = Returns(normalizer.query)

\* C17: the normalizer never raises; when normalizing a query of more than
\* 200 characters fails, it returns the first 200 characters of the query.
C17_FailureTruncates ==
    normalizer.pc = "done"
    => /\ normalizer.outcome.kind = "return"
       /\ (Len(normalizer.query) > QueryLimit /\ normalizer.tokenizer = "LookupError")
             => /\ Len(normalizer.outcome.value) = QueryLimit
                /\ \A k \in 1..QueryLimit :
                      normalizer.outcome.value[k] = normalizer.query[k]

\* the tokenizer has failed on the 500-character query, and its first 200
\* characters have come back
C17_Witness ==
    /\ normalizer.pc = "done"
    /\ normalizer.tokenizer = "LookupError"
    /\ normalizer.query = QuantumQuery
    /\ normalizer.outcome.kind = "return"
    /\ Len(normalizer.outcome.value) = QueryLimit

(***************************************************************************)
(* Properties of the network side of the tools (checked under SpecNetwork) *)
(***************************************************************************)
\* the delay a component is configured with: rate_limit_delay for the
\* search, retry_delay (the only delay it has) for the download
ConfiguredDelay(component) ==
    IF component = "search" THEN RateLimitDelay ELSE RetryDelay

IsSearchCall(i) == requests[i].component = "search"

IsDownloadCall(i) == requests[i].component = "download"

\* download call j follows download call i with no download call between
NextDownloadCall(i, j) ==
    /\ i < j
    /\ IsDownloadCall(i)
    /\ IsDownloadCall(j)
    /\ \A k \in (i + 1)..(j - 1) : ~IsDownloadCall(k)

\* C18 as stated: any external call of a component is issued no sooner than
\* the configured delay after the previous external call of that component.
C18_CallsDelayApart ==
    \A i, j \in DOMAIN requests :
        (i < j /\ requests[i].component = requests[j].component)
        => requests[j].at - requests[i].at
              >= ConfiguredDelay(requests[i].component)

\* C18: before each arXiv request the search takes a timestamp that is at
\* least rate_limit_delay after the timestamp of its previous request, and
\* issues the request no earlier than that timestamp; the download waits
\* retry_delay between a failed attempt and the next attempt of the same
\* download (and nothing between one download and the next).
C18_SearchStampsDelayApart ==
    /\ \A i, j \in DOMAIN requests :
          (i < j /\ IsSearchCall(i) /\ IsSearchCall(j))
          => requests[j].stamp - requests[i].stamp >= RateLimitDelay
    /\ \A i \in DOMAIN requests :
          IsSearchCall(i) => requests[i].at >= requests[i].stamp
    /\ \A i, j \in DOMAIN requests :
          (NextDownloadCall(i, j) /\ requests[j].attempt > 0)
          => requests[j].at - requests[i].at >= RetryDelay

\* two searches were issued less than rate_limit_delay apart, their
\* timestamps exactly rate_limit_delay apart, and a failed download was
\* tried again retry_delay after its first attempt
C18_Witness ==
    /\ \E i, j \in DOMAIN requests :
          /\ i < j
          /\ IsSearchCall(i)
          /\ IsSearchCall(j)
          /\ requests[j].stamp - requests[i].stamp = RateLimitDelay
          /\ requests[j].at - requests[i].at < RateLimitDelay
    /\ \E i, j \in DOMAIN requests :
          /\ NextDownloadCall(i, j)
          /\ requests[j].attempt = 1
          /\ requests[j].at - requests[i].at = RetryDelay

(***************************************************************************)
(* Discarding of invalid author-year candidates (checked under SpecExtract)*)
(***************************************************************************)
\* C20 as stated: a candidate of an author-year pattern whose year fails
\* valid_year contributes no record of any shape: "Smith (1700)", whose
\* candidates all have the year 1700, yields no citation.
C20_InvalidCandidateDiscarded ==
    /\ \A current_year \in ClockYears :
          ~ValidateYear(<<"1", "7", "0", "0">>, current_year)
    /\ \A ret \in AllReturned :
          ret.text = SmithOldYear => Output(ret) = <<>>

(***************************************************************************)
(* Order of the pattern library (checked under SpecExtract)                *)
(***************************************************************************)
\* the class of an author name, [A-Z][a-z]+, as the patterns write it
AuthorNameClass ==
    <<"[", "A", "-", "Z", "]", "[", "a", "-", "z", "]", "+">>

\* an author-year rule names an author; the other rules (bracketed or
\* parenthesized integers, and the short token [Smi20]) are numerical-class
IsAuthorYearRule(pattern) == Contains(AuthorNameClass, pattern)

IsNumericalRule(pattern) == ~IsAuthorYearRule(pattern)

\* C21 as stated: numerical-class rules are applied first: whenever a call
\* applies an author-year rule to a region, no numerical-class rule is
\* still to be applied to that region.
C21_NumericalRulesFirst ==
    \A c \in Callers :
        (call[c].pc = "scan" /\ IsAuthorYearRule(patterns[call[c].pi]))
        => \A j \in DOMAIN patterns :
              IsNumericalRule(patterns[j]) => j < call[c].pi

(***************************************************************************)
(* The numerical branch (checked under SpecExtract)                        *)
(***************************************************************************)
\* the match the scan of call c is at
HitText(c) == Group0(Region(call[c]).current_text, NextHit(call[c]))

AtMatch(c) == call[c].pc = "scan" /\ NextHit(call[c]).start # 0

HasDigit(s) == \E k \in DOMAIN s : s[k] \in Digit

\* a record of the numerical shape: type "numerical", a number made only of
\* digits, and neither an author nor an authors field
IsDigitsOnlyNumerical(citation) ==
    /\ "type" \in DOMAIN citation
    /\ citation.type = "numerical"
    /\ "number" \in DOMAIN citation
    /\ citation.number # <<>>
    /\ \A k \in DOMAIN citation.number : citation.number[k] \in Digit
    /\ "author" \notin DOMAIN citation
    /\ "authors" \notin DOMAIN citation

\* the records a call holds while it scans, and those of the results returned
EmittedRecords ==
    UNION ({{call[c].citations[k] : k \in DOMAIN call[c].citations} : c \in Callers}
           \cup {{Output(ret)[k] : k \in DOMAIN Output(ret)} : ret \in AllReturned})

\* C22 as stated: at every match the numerical branch is taken because the
\* pattern string contains '[', and every record emitted is numerical with
\* a number made only of digits and no author or authors field.
C22_EveryPatternHasBracket ==
    /\ \A c \in Callers : AtMatch(c) => Contains(<<"[">>, patterns[call[c].pi])
    /\ \A citation \in EmittedRecords : IsDigitsOnlyNumerical(citation)

\* C22: at every match the numerical branch is taken (the pattern string
\* contains '[', or it contains '(' and the match holds a digit), and every
\* record emitted is numerical with a number made only of digits and no
\* author or authors field.
C22_AlwaysNumericalBranch ==
    [](/\ \A c \in Callers :
             AtMatch(c) => \/ Contains(<<"[">>, patterns[call[c].pi])
                           \/ /\ Contains(<<"(">>, patterns[call[c].pi])
                              /\ HasDigit(HitText(c))
       /\ \A citation \in EmittedRecords : IsDigitsOnlyNumerical(citation))

\* "Smith (2020)" has been returned with the match of an author-year rule
\* as a numerical record, next to "(2020)" from a rule without '['
C22_Witness ==
    \E ret \in AllReturned :
        /\ ret.text = SmithYear
        /\ \E i, j \in DOMAIN Output(ret) :
              /\ Output(ret)[i].citation_text = <<"(", "2", "0", "2", "0", ")">>
              /\ Output(ret)[j].citation_text = SmithYear
              /\ IsDigitsOnlyNumerical(Output(ret)[j])
              /\ Output(ret)[j].number = <<"2", "0", "2", "0">>

(***************************************************************************)
(* Retries of the download (checked under SpecNetwork)                     *)
(***************************************************************************)
DownloadEnded == transfer.pc = "done" /\ transfer.op = "download"

\* the attempts of the external calls follow the loop: each download call
\* is attempt 0 of an invocation or the next attempt of the same one, and
\* no attempt is numbered max_retries or more
AttemptsWithinLimit ==
    /\ \A i \in DOMAIN requests :
          IsDownloadCall(i) =>
             /\ requests[i].attempt \in 0..(MaxRetries - 1)
             /\ (\A k \in 1..(i - 1) : ~IsDownloadCall(k))
                   => requests[i].attempt = 0
    /\ \A i, j \in DOMAIN requests :
          NextDownloadCall(i, j) =>
             \/ requests[j].attempt = 0
             \/ /\ requests[j].attempt = requests[i].attempt + 1
                /\ requests[j].at - requests[i].at >= RetryDelay

\* a further attempt is pending only after a request exception
RetryOnlyAfterException ==
    (transfer.pc \in {"attempt", "downloading"} /\ transfer.attempt > 0)
    => transfer.response = "RequestException"

\* how an invocation that made a request has ended: with the content on a
\* successful response, with None on a wrong content type or an empty body,
\* and with None on a request exception only at the last attempt
EndsAsTheResponseSays ==
    (DownloadEnded /\ "response" \in DOMAIN transfer)
    => /\ transfer.outcome = IF transfer.response = "content"
                             THEN Returns(PdfContent) ELSE Returns(PyNone)
       /\ transfer.response = "RequestException"
             => transfer.attempt = MaxRetries - 1

\* one step of the download: a response ends the invocation at once, with
\* no wait and no request, or is followed by a wait of at least retry_delay
\* before the next attempt; a request of the invocation in progress is the
\* attempt that was pending
DownloadStep ==
    /\ (transfer.pc = "downloading" /\ transfer'.pc = "done")
          => now' = now /\ requests' = requests
    /\ (transfer.pc = "downloading" /\ transfer'.pc = "attempt")
          => /\ now' >= now + RetryDelay
             /\ requests' = requests
             /\ transfer'.response = "RequestException"
             /\ transfer'.attempt = transfer.attempt + 1
    /\ (transfer.pc = "attempt" /\ requests' # requests)
          => /\ Len(requests') = Len(requests) + 1
             /\ requests'[Len(requests')].attempt = transfer.attempt
             /\ requests'[Len(requests')].at = now

\* C23: one call of download_pdf issues at most max_retries requests; a
\* further request follows only a request exception, retry_delay or more
\* after it; the call ends without a wait or a further request on the
\* content, on a wrong content type, on an empty body, and, returning None,
\* on the request exception of attempt max_retries.
C23_DownloadRetries ==
    /\ [](AttemptsWithinLimit /\ RetryOnlyAfterException /\ EndsAsTheResponseSays)
    /\ [][DownloadStep]_vars

\* a download has ended with None after max_retries requests, each of the
\* last two retry_delay after a request exception
C23_Witness ==
    /\ DownloadEnded
    /\ "response" \in DOMAIN transfer
    /\ transfer.response = "RequestException"
    /\ transfer.attempt = MaxRetries - 1
    /\ transfer.outcome = Returns(PyNone)
    /\ \E i \in DOMAIN requests :
          /\ i + MaxRetries - 1 = Len(requests)
          /\ \A k \in 0..(MaxRetries - 1) :
                /\ IsDownloadCall(i + k)
                /\ requests[i + k].attempt = k
                /\ requests[i + k].at = requests[i].at + k * RetryDelay

=============================================================================
